---- MODULE Spec2Model ----
(***************************************************************************)
(* Model of the RuntimeAssetImport plugin.                                 *)
(*                                                                         *)
(* Part 1: the loader (AssetLoader.cpp): LoadMeshFromAssetFile /           *)
(* LoadMeshFromAssetData, TransformToUECoordinateSystem,                   *)
(* GenerateMaterialList and the recursive ConstructMeshData, plus the      *)
(* result protocol of the Construct*MeshComponentFromAssetFile entry       *)
(* points of AssetConstructor.cpp.                                         *)
(*                                                                         *)
(* Conventions: indices stored in the data (ParentNodeIndex, MaterialIndex,*)
(* loop counters) keep the 0-based values of the C++ code; TLA+ sequences  *)
(* are 1-based, so element i of a TArray is At(arr, i) == arr[i + 1].      *)
(* check/checkf/verifyf are modelled as enabled (a failed one halts the    *)
(* call: pc = "fatal").                                                    *)
(***************************************************************************)
EXTENDS Integers, Sequences, FiniteSets, TLC

\* ---------------------------------------------------------------- bounds
MaxNodes == 4
MaxMaterials == 2
MaxVerts == 2
MaxFaces == 2
MaxTexBytes == 2

\* ------------------------------------------------------------- utilities
At(arr, i) == arr[i + 1]

Range(s) == {s[k] : k \in 1..Len(s)}

\* all orderings (injective sequences) of a finite set
Orders(S) ==
  {s \in [1..Cardinality(S) -> S] :
     \A a, b \in 1..Cardinality(S) : a # b => s[a] # s[b]}

\* ------------------------------------------------- the importer's scenes
\* aiNode tree: node ids 1..n, root is node 1, p[c] is the parent of c.
ParentArrays(n) ==
  {p \in [1..n -> 0..n] : p[1] = 0 /\ \A c \in 2..n : p[c] \in 1..(c - 1)}

ChildSet(p, n, x) == {c \in 1..n : p[c] = x}

\* mChildren for nodes 1..k: every order of every node's child set
RECURSIVE ChildOrders(_, _, _)
ChildOrders(p, n, k) ==
  IF k = 0 THEN {<<>>}
  ELSE {Append(f, o) : f \in ChildOrders(p, n, k - 1),
                       o \in Orders(ChildSet(p, n, k))}

NodeTrees(maxn) ==
  UNION {UNION {ChildOrders(p, n, n) : p \in ParentArrays(n)} : n \in 1..maxn}

\* aiNode::mTransformation as a symbolic product of matrices (left to right);
\* a factor is <<name, node, transposed>>
SourceTransforms(n) == [x \in 1..n |-> <<<<"Local", x, FALSE>>>>]

\* aiFace::mIndices; with aiProcess_Triangulate points and lines survive
Triangle1 == <<0, 1, 2>>
Triangle2 == <<2, 1, 0>>
LineFace == <<0, 1>>
FaceChoices == {Triangle1, Triangle2, LineFace}

FaceLists(maxf) == UNION {[1..k -> FaceChoices] : k \in 0..maxf}

\* aiMesh: the per-vertex arrays are non-null pointers or nullptr
AiMesh(nv, hasN, hasUV, hasC, hasT, faces, mat) ==
  [mNumVertices |-> nv, mVertices |-> nv > 0, mNormals |-> hasN,
   mTextureCoords0 |-> hasUV, mColors0 |-> hasC, mTangents |-> hasT,
   mFaces |-> faces, mMaterialIndex |-> mat]

SimpleMesh == AiMesh(1, TRUE, TRUE, FALSE, TRUE, <<Triangle1>>, 0)

ChannelMeshes(maxv) ==
  {AiMesh(nv, hasN, hasUV, hasC, hasT, <<Triangle1>>, 0) :
     nv \in 0..maxv, hasN \in BOOLEAN, hasUV \in BOOLEAN,
     hasC \in BOOLEAN, hasT \in BOOLEAN}

FaceMeshes(maxf) ==
  {AiMesh(1, TRUE, FALSE, FALSE, FALSE, faces, 0) : faces \in FaceLists(maxf)}

\* aiMaterial: diffuse texture count, the results of the two Get queries,
\* and the embedded texture the diffuse path resolves to
NoTexture == [found |-> FALSE]
CompressedTextures(maxb) ==
  {[found |-> TRUE, mHeight |-> 0, mWidth |-> Len(b), pcData |-> b] :
     b \in UNION {[1..k -> {7, 9}] : k \in 1..maxb}}
RawTextures == {[found |-> TRUE, mHeight |-> 1, mWidth |-> 1, pcData |-> <<5>>]}

AiReturn == {"aiReturn_SUCCESS", "aiReturn_FAILURE", "aiReturn_OUTOFMEMORY"}

AiMaterials(maxb) ==
       {[NumTexture |-> 0, GetDiffuse |-> r, Diffuse |-> c,
         GetTexture |-> "aiReturn_FAILURE", Embedded |-> NoTexture] :
          r \in AiReturn, c \in {"red", "blue"}}
  \cup {[NumTexture |-> nt, GetDiffuse |-> "aiReturn_FAILURE", Diffuse |-> "red",
         GetTexture |-> r, Embedded |-> NoTexture] :
          nt \in {1, 2}, r \in AiReturn}
  \cup {[NumTexture |-> 1, GetDiffuse |-> "aiReturn_FAILURE", Diffuse |-> "red",
         GetTexture |-> "aiReturn_SUCCESS", Embedded |-> t] :
          t \in CompressedTextures(maxb) \cup RawTextures}

SimpleMaterial ==
  [NumTexture |-> 0, GetDiffuse |-> "aiReturn_SUCCESS", Diffuse |-> "red",
   GetTexture |-> "aiReturn_FAILURE", Embedded |-> NoTexture]

MaterialLists(maxm, maxb) ==
  UNION {[1..k -> AiMaterials(maxb)] : k \in 0..maxm}

\* a loaded aiScene
AiSceneOf(children, nodeMeshes, meshes, materials) ==
  [null |-> FALSE, mRootNode |-> 1, mChildren |-> children,
   mNodeMeshes |-> nodeMeshes,
   mTransformation |-> SourceTransforms(Len(children)),
   mMeshes |-> meshes, mMaterials |-> materials]

\* the importer returned nullptr
NullScene == [null |-> TRUE]

\* scenes with every tree shape; odd nodes carry one mesh
TreeScenes ==
  {AiSceneOf(ch, [x \in 1..Len(ch) |-> IF x % 2 = 1 THEN <<0>> ELSE <<>>],
             <<SimpleMesh>>, <<SimpleMaterial>>) : ch \in NodeTrees(MaxNodes)}

\* scenes with every combination of vertex channels
ChannelScenes ==
  {AiSceneOf(<<<<2>>, <<>>>>, <<<<1, 0>>, <<1>>>>, <<m, SimpleMesh>>,
             <<SimpleMaterial>>) : m \in ChannelMeshes(MaxVerts)}

\* scenes with every face list
FaceScenes ==
  {AiSceneOf(<<<<>>>>, <<<<0>>>>, <<m>>, <<SimpleMaterial>>) :
     m \in FaceMeshes(MaxFaces)}

\* scenes with every material list
MaterialScenes ==
  {AiSceneOf(<<<<>>>>, <<<<>>>>, <<>>, ms) :
     ms \in MaterialLists(MaxMaterials, MaxTexBytes)}

Scenes ==
  {NullScene} \cup TreeScenes \cup ChannelScenes \cup FaceScenes
              \cup MaterialScenes

\* ---------------------------------------------- assimp accessors (aiMesh)
HasPositions(m) == m.mVertices /\ m.mNumVertices > 0
HasFaces(m) == Len(m.mFaces) > 0
HasNormals(m) == m.mNormals /\ m.mNumVertices > 0
HasTextureCoords0(m) == m.mTextureCoords0 /\ m.mNumVertices > 0
HasVertexColors0(m) == m.mColors0 /\ m.mNumVertices > 0
HasTangentsAndBitangents(m) == m.mTangents /\ m.mNumVertices > 0

\* element k of a source per-vertex array
SrcArray(tag, n) == [k \in 1..n |-> <<tag, k>>]

\* TArray::AddUninitialized(n): n elements of indeterminate value
Indeterminate == {<<"junk", 0>>, <<"junk", 1>>}
AddUninitialized(n) == [1..n -> Indeterminate]

\* ------------------------------------ ConstructMeshData: the six lambdas
SectionVertices(m) ==
  IF ~HasPositions(m) THEN AddUninitialized(m.mNumVertices)
  ELSE {SrcArray("vertex", m.mNumVertices)}

\* checkf(AiFace.mNumIndices == 3)
HasNonTriangularFace(m) ==
  HasFaces(m) /\ \E f \in 1..Len(m.mFaces) : Len(m.mFaces[f]) # 3

\* SectionTriangles writing the indices of each face in reverse
SectionTriangles_FaceReversed(m) ==
  IF ~HasFaces(m) THEN <<>>
  ELSE [k \in 1..(Len(m.mFaces) * 3) |->
          m.mFaces[((k - 1) \div 3) + 1][3 - ((k - 1) % 3)]]

\* Triangles[3 * i + triangle_i] = AiFace.mIndices[triangle_i]
SectionTriangles(m) ==
  IF ~HasFaces(m) THEN <<>>
  ELSE [k \in 1..(Len(m.mFaces) * 3) |->
          m.mFaces[((k - 1) \div 3) + 1][((k - 1) % 3) + 1]]

SectionNormals(m) ==
  IF ~HasNormals(m) THEN AddUninitialized(m.mNumVertices)
  ELSE {SrcArray("normal", m.mNumVertices)}

SectionUV0Channel(m) ==
  IF ~HasTextureCoords0(m) THEN AddUninitialized(m.mNumVertices)
  ELSE IF m.mNumVertices = 0 \/ ~m.mTextureCoords0
       THEN AddUninitialized(m.mNumVertices)
       ELSE {SrcArray("uv0", m.mNumVertices)}

SectionVertexColors0(m) ==
  IF ~HasVertexColors0(m) THEN AddUninitialized(m.mNumVertices)
  ELSE IF m.mNumVertices = 0 \/ ~m.mColors0
       THEN AddUninitialized(m.mNumVertices)
       ELSE {SrcArray("color0", m.mNumVertices)}

\* SectionTangents sized by the number of faces instead of vertices
SectionTangents_ByFaces(m) ==
  IF ~HasTangentsAndBitangents(m) THEN AddUninitialized(Len(m.mFaces))
  ELSE {SrcArray("tangent", m.mNumVertices)}

SectionTangents(m) ==
  IF ~HasTangentsAndBitangents(m) THEN AddUninitialized(m.mNumVertices)
  ELSE {SrcArray("tangent", m.mNumVertices)}

\* every FLoadedMeshSectionData the loop body can produce for one aiMesh
SectionOutcomes(m) ==
  [Vertices : SectionVertices(m), Triangles : {SectionTriangles(m)},
   Normals : SectionNormals(m), UV0Channel : SectionUV0Channel(m),
   VertexColors0 : SectionVertexColors0(m), Tangents : SectionTangents(m),
   MaterialIndex : {m.mMaterialIndex}]

\* Node.Sections for the mesh references refs[1..k] of a node
RECURSIVE NodeSections(_, _, _)
NodeSections(scene, refs, k) ==
  IF k = 0 THEN {<<>>}
  ELSE {Append(s, x) : s \in NodeSections(scene, refs, k - 1),
                       x \in SectionOutcomes(At(scene.mMeshes, refs[k]))}

NodeHasNonTriangularFace(scene, node) ==
  \E k \in 1..Len(scene.mNodeMeshes[node]) :
     HasNonTriangularFace(At(scene.mMeshes, scene.mNodeMeshes[node][k]))

\* ------------------------------------------------------------ transforms
Transposed(f) == <<f[1], f[2], ~f[3]>>

\* transpose of a product is the reversed product of the transposes
AiMatrixToUEMatrix(M) == [k \in 1..Len(M) |-> Transposed(M[Len(M) + 1 - k])]

Ai_UE_XformMatrix == <<"Ai_UE", 0, FALSE>>

\* ------------------------------------------------- GenerateMaterialList
DefaultMaterialData ==
  [Color |-> "ForceInit", CompressedTextureData |-> <<>>,
   ColorStatus |-> "None"]

\* FImageUtils::CompressImage(.., "png", ..): an encoded, non-empty buffer
CompressImage(pcData) == <<137, 80>> \o pcData

\* a material with any number of diffuse textures is accepted
MaterialIsFatal_Never(am) == FALSE

\* verifyf(NumTexture == 1) in the textured branch
MaterialIsFatal(am) == am.NumTexture > 1

\* the loop body for one material (am.NumTexture <= 1)
MaterialDataOf(md, am) ==
  IF am.NumTexture = 0
  THEN IF am.GetDiffuse = "aiReturn_SUCCESS"
       THEN [md EXCEPT !.ColorStatus = "ColorIsSet", !.Color = am.Diffuse]
       ELSE [md EXCEPT !.ColorStatus = "ColorIsSet"]
  ELSE IF am.GetTexture # "aiReturn_SUCCESS"
       THEN [md EXCEPT !.ColorStatus = "TextureWasSetButError"]
       ELSE IF ~am.Embedded.found
            THEN [md EXCEPT !.ColorStatus = "TextureIsSet"]
            ELSE IF am.Embedded.mHeight # 0
                 THEN [md EXCEPT !.ColorStatus = "TextureIsSet",
                          !.CompressedTextureData =
                             CompressImage(am.Embedded.pcData)]
                 ELSE [md EXCEPT !.ColorStatus = "TextureIsSet",
                          !.CompressedTextureData =
                             SubSeq(am.Embedded.pcData, 1, am.Embedded.mWidth)]

\* TArray::AddDefaulted(n)
AddDefaulted(n) == [k \in 1..n |-> DefaultMaterialData]

EmptyMeshData == [NodeList |-> <<>>, MaterialList |-> <<>>]

\* Construct*Tree walk the same aiScene data: a bad face or material halts
SceneIsFatal(scene) ==
  \/ \E k \in 1..Len(scene.mMaterials) : MaterialIsFatal(scene.mMaterials[k])
  \/ \E x \in 1..Len(scene.mChildren) : NodeHasNonTriangularFace(scene, x)

\* ------------------------------------------------------------------ state
VARIABLES
  AiScene,       \* what the importer returns for the given path / buffer
  pc,            \* position in the running call
  entry,         \* the public entry point that was called
  Result,        \* the caller's result out-parameter
  ProcResult,    \* the local result variable of the Static/Dynamic variants
  MaterialList,  \* GenerateMaterialList: the local list
  mat_i,         \* GenerateMaterialList: the loop counter
  MeshData,      \* ConstructMeshData: the structure being filled
  stack,         \* ConstructMeshData: the recursion (node, NodeIndex, child)
  ret,           \* the returned FLoadedMeshData
  Root,          \* the returned root component pointer
  \* reconstruction from FLoadedMeshData (part 2)
  MeshComponentT,                  \* the template argument of the call
  ParentMaterialInterface,         \* the base material that was passed
  Owner,                           \* the owning actor that was passed
  ShouldRegisterComponentToOwner,  \* the flag that was passed
  MaterialInstances,  \* the array returned by GenerateMaterialInstances
  MeshComponentList,  \* hierarchical: the local array of components
  Node_i,             \* the counter of the loop over NodeList
  Objects,            \* every UObject created so far, by creation order
  Returned,           \* hierarchical: the returned component pointer
  \* the flattened latent action (part 3)
  IsRunning,               \* the member of the latent action
  MeshSectionIndex,        \* the constructor's local counter
  CalcTFMatrixTasks,       \* the local array of task handles
  CreateMeshSectionTasks,  \* the local array of task handles
  Tasks,                   \* the launched tasks: handle -> task record
  GameThread,              \* what the game thread is executing
  TickerQueue,             \* functions queued by ExecuteOnGameThread, each
                           \* named by the handle of the task that queued it
  Target,                  \* InOutTargetProceduralMeshComponent
  Response,                \* what the latent action manager was told
  Sync                     \* which accesses to IsRunning are ordered

loaderVars == <<AiScene, pc, entry, Result, ProcResult, MaterialList, mat_i,
                MeshData, stack, ret, Root>>

loaderVarsButPc == <<AiScene, entry, Result, ProcResult, MaterialList, mat_i,
                     MeshData, stack, ret, Root>>

callVars == <<MeshComponentT, ParentMaterialInterface, Owner,
              ShouldRegisterComponentToOwner>>

hierVars == <<MeshComponentList, Returned>>

latentVars == <<IsRunning, MeshSectionIndex, CalcTFMatrixTasks,
                CreateMeshSectionTasks, Tasks, GameThread, TickerQueue,
                Target, Response, Sync>>

buildVars == <<callVars, MaterialInstances, Node_i, Objects, hierVars,
               latentVars>>

vars == <<loaderVars, buildVars>>

ResultValues == {"Success", "Failure"}

\* an uninitialised uint8-backed enum holds any byte
IndeterminateResult == {"Success", "Failure", "Garbage"}

LoadEntries == {"LoadMeshFromAssetFile", "LoadMeshFromAssetData"}
DerivedEntries == {"ConstructStaticMeshComponentFromAssetFile",
                   "ConstructDynamicMeshComponentFromAssetFile"}

\* no task has been seen to end by the game thread, IsRunning has not been
\* read by UpdateOperation and no two of its accesses are unordered
NoSync == [GameThreadSaw |-> {}, Reads |-> {}, Unordered |-> {}]

\* no reconstruction call has been made
NoCall ==
  /\ MeshComponentT = "none"
  /\ ParentMaterialInterface = [null |-> TRUE, HasParameters |-> FALSE]
  /\ Owner = "nullptr"
  /\ ShouldRegisterComponentToOwner = FALSE
  /\ MaterialInstances = <<>>
  /\ MeshComponentList = <<>>
  /\ Node_i = 0
  /\ Objects = <<>>
  /\ Returned = 0
  /\ IsRunning = FALSE
  /\ MeshSectionIndex = 0
  /\ CalcTFMatrixTasks = <<>>
  /\ CreateMeshSectionTasks = <<>>
  /\ Tasks = <<>>
  /\ GameThread = "idle"
  /\ TickerQueue = {}
  /\ Target = [Sections |-> <<>>, Materials |-> <<>>, Writes |-> {},
               Busy |-> {}]
  /\ Response = [Triggered |-> 0, Removed |-> FALSE, StillRunning |-> FALSE]
  /\ Sync = NoSync

Init ==
  /\ AiScene \in Scenes
  /\ pc = "idle"
  /\ entry = "none"
  /\ Result \in ResultValues
  /\ ProcResult = "unset"
  /\ MaterialList = <<>>
  /\ mat_i = 0
  /\ MeshData = EmptyMeshData
  /\ stack = <<>>
  /\ ret = EmptyMeshData
  /\ Root = "unset"
  /\ NoCall

\* ----------------------------------------------------- the entry points
\* UAssetLoader::LoadMeshFromAssetFile: the call up to LoadAiScene
LoadMeshFromAssetFile ==
  /\ pc = "idle"
  /\ entry' = "LoadMeshFromAssetFile"
  /\ pc' = "scene_loaded"
  /\ UNCHANGED <<AiScene, Result, ProcResult, MaterialList, mat_i, MeshData,
                 stack, ret, Root>>
  /\ UNCHANGED buildVars

\* UAssetLoader::LoadMeshFromAssetData: the call up to LoadAiScene
LoadMeshFromAssetData ==
  /\ pc = "idle"
  /\ entry' = "LoadMeshFromAssetData"
  /\ pc' = "scene_loaded"
  /\ UNCHANGED <<AiScene, Result, ProcResult, MaterialList, mat_i, MeshData,
                 stack, ret, Root>>
  /\ UNCHANGED buildVars

\* LoadReturnFailure without the assignment to the result
LoadReturnFailure_NoResult ==
  /\ pc = "scene_loaded"
  /\ entry \in LoadEntries
  /\ AiScene.null
  /\ ret' = EmptyMeshData
  /\ pc' = "done"
  /\ UNCHANGED <<AiScene, entry, Result, ProcResult, MaterialList, mat_i,
                 MeshData, stack, Root>>
  /\ UNCHANGED buildVars

\* if (nullptr == AiScene) { Result = Failure; return {}; }
LoadReturnFailure ==
  /\ pc = "scene_loaded"
  /\ entry \in LoadEntries
  /\ AiScene.null
  /\ Result' = "Failure"
  /\ ret' = EmptyMeshData
  /\ pc' = "done"
  /\ UNCHANGED <<AiScene, entry, ProcResult, MaterialList, mat_i, MeshData,
                 stack, Root>>
  /\ UNCHANGED buildVars

\* the matrix multiplied into the transformation of every node
AiRootNodeXForm_EveryNode(scene) ==
  [scene EXCEPT !.mTransformation =
     [x \in DOMAIN @ |-> <<Ai_UE_XformMatrix>> \o @[x]]]

\* AiRootNodeXForm = Ai_UE_XformMatrix * AiRootNodeXForm
AiRootNodeXForm(scene) ==
  [scene EXCEPT !.mTransformation[scene.mRootNode] =
     <<Ai_UE_XformMatrix>> \o @]

\* TransformToUECoordinateSystem(AiScene), the first statement of
\* ConstructMeshData
TransformToUECoordinateSystem ==
  /\ pc = "scene_loaded"
  /\ ~AiScene.null
  /\ AiScene' = AiRootNodeXForm(AiScene)
  /\ pc' = IF entry \in LoadEntries THEN "materials" ELSE "proc_tree"
  /\ UNCHANGED <<entry, Result, ProcResult, MaterialList, mat_i, MeshData,
                 stack, ret, Root>>
  /\ UNCHANGED buildVars

\* GenerateMaterialList: MaterialList.AddDefaulted(NumMaterials); i = 0
GenerateMaterialList_Enter ==
  /\ pc = "materials"
  /\ MaterialList' = AddDefaulted(Len(AiScene.mMaterials))
  /\ mat_i' = 0
  /\ MeshData' = EmptyMeshData
  /\ pc' = "materials_loop"
  /\ UNCHANGED <<AiScene, entry, Result, ProcResult, stack, ret, Root>>
  /\ UNCHANGED buildVars

\* GenerateMaterialList_Iterate reading the materials from the far end
GenerateMaterialList_Iterate_WrongSource ==
  /\ pc = "materials_loop"
  /\ mat_i < Len(AiScene.mMaterials)
  /\ LET src == Len(AiScene.mMaterials) - 1 - mat_i
     IN IF MaterialIsFatal(At(AiScene.mMaterials, src))
        THEN /\ pc' = "fatal"
             /\ UNCHANGED <<MaterialList, mat_i>>
        ELSE /\ MaterialList' =
                  [MaterialList EXCEPT ![mat_i + 1] =
                     MaterialDataOf(@, At(AiScene.mMaterials, src))]
             /\ mat_i' = mat_i + 1
             /\ pc' = "materials_loop"
  /\ UNCHANGED <<AiScene, entry, Result, ProcResult, MeshData, stack, ret,
                 Root>>
  /\ UNCHANGED buildVars

\* GenerateMaterialList: one iteration of the loop
GenerateMaterialList_Iterate ==
  /\ pc = "materials_loop"
  /\ mat_i < Len(AiScene.mMaterials)
  /\ IF MaterialIsFatal(At(AiScene.mMaterials, mat_i))
     THEN /\ pc' = "fatal"
          /\ UNCHANGED <<MaterialList, mat_i>>
     ELSE /\ MaterialList' =
               [MaterialList EXCEPT ![mat_i + 1] =
                  MaterialDataOf(@, At(AiScene.mMaterials, mat_i))]
          /\ mat_i' = mat_i + 1
          /\ pc' = "materials_loop"
  /\ UNCHANGED <<AiScene, entry, Result, ProcResult, MeshData, stack, ret,
                 Root>>
  /\ UNCHANGED buildVars

\* MeshData.MaterialList = GenerateMaterialList(AiScene)
GenerateMaterialList_Return ==
  /\ pc = "materials_loop"
  /\ mat_i >= Len(AiScene.mMaterials)
  /\ MeshData' = [MeshData EXCEPT !.MaterialList = MaterialList]
  /\ pc' = "nodes"
  /\ UNCHANGED <<AiScene, entry, Result, ProcResult, MaterialList, mat_i,
                 stack, ret, Root>>
  /\ UNCHANGED buildVars

\* ConstructMeshData_Body taking NodeList.Num() as the node's own index
ConstructMeshData_Body_NumAsIndex(AiNode, ParentNodeIndex, frames) ==
  IF NodeHasNonTriangularFace(AiScene, AiNode)
  THEN /\ pc' = "fatal"
       /\ UNCHANGED <<MeshData, stack>>
  ELSE \E Sections \in NodeSections(AiScene, AiScene.mNodeMeshes[AiNode],
                                    Len(AiScene.mNodeMeshes[AiNode])) :
         /\ MeshData' =
              [MeshData EXCEPT !.NodeList =
                 Append(@, [ParentNodeIndex |-> ParentNodeIndex,
                            Name |-> AiNode,
                            RelativeTransform |->
                              AiMatrixToUEMatrix(AiScene.mTransformation[AiNode]),
                            Sections |-> Sections])]
         /\ stack' = Append(frames, [AiNode |-> AiNode,
                                     NodeIndex |-> Len(MeshData.NodeList) + 1,
                                     i |-> 0])
         /\ pc' = "nodes_loop"

\* the body of the recursive ConstructMeshData for AiNode, up to its loop
\* over the children; frames are the callers' activation records
ConstructMeshData_Body(AiNode, ParentNodeIndex, frames) ==
  IF NodeHasNonTriangularFace(AiScene, AiNode)
  THEN /\ pc' = "fatal"
       /\ UNCHANGED <<MeshData, stack>>
  ELSE \E Sections \in NodeSections(AiScene, AiScene.mNodeMeshes[AiNode],
                                    Len(AiScene.mNodeMeshes[AiNode])) :
         /\ MeshData' =
              [MeshData EXCEPT !.NodeList =
                 Append(@, [ParentNodeIndex |-> ParentNodeIndex,
                            Name |-> AiNode,
                            RelativeTransform |->
                              AiMatrixToUEMatrix(AiScene.mTransformation[AiNode]),
                            Sections |-> Sections])]
         /\ stack' = Append(frames, [AiNode |-> AiNode,
                                     NodeIndex |-> Len(MeshData.NodeList),
                                     i |-> 0])
         /\ pc' = "nodes_loop"

\* ConstructMeshData(AiScene, *AiScene.mRootNode, MeshData, -1)
ConstructMeshData_Root ==
  /\ pc = "nodes"
  /\ ConstructMeshData_Body(AiScene.mRootNode, -1, <<>>)
  /\ UNCHANGED <<AiScene, entry, Result, ProcResult, MaterialList, mat_i, ret,
                 Root>>
  /\ UNCHANGED buildVars

\* ConstructMeshData_Child walking mChildren from the last child to the first
ConstructMeshData_Child_Reversed ==
  /\ pc = "nodes_loop"
  /\ stack # <<>>
  /\ LET top == stack[Len(stack)]
         NumChildren == Len(AiScene.mChildren[top.AiNode])
     IN /\ top.i < NumChildren
        /\ ConstructMeshData_Body(
             At(AiScene.mChildren[top.AiNode], NumChildren - 1 - top.i),
             top.NodeIndex,
             [stack EXCEPT ![Len(stack)].i = top.i + 1])
  /\ UNCHANGED <<AiScene, entry, Result, ProcResult, MaterialList, mat_i, ret,
                 Root>>
  /\ UNCHANGED buildVars

\* ConstructMeshData(AiScene, AiChildNode, MeshData, NodeIndex) from the loop
ConstructMeshData_Child ==
  /\ pc = "nodes_loop"
  /\ stack # <<>>
  /\ LET top == stack[Len(stack)]
     IN /\ top.i < Len(AiScene.mChildren[top.AiNode])
        /\ ConstructMeshData_Body(At(AiScene.mChildren[top.AiNode], top.i),
                                  top.NodeIndex,
                                  [stack EXCEPT ![Len(stack)].i = top.i + 1])
  /\ UNCHANGED <<AiScene, entry, Result, ProcResult, MaterialList, mat_i, ret,
                 Root>>
  /\ UNCHANGED buildVars

\* the loop over the children is over: the activation returns
ConstructMeshData_Return ==
  /\ pc = "nodes_loop"
  /\ stack # <<>>
  /\ stack[Len(stack)].i >= Len(AiScene.mChildren[stack[Len(stack)].AiNode])
  /\ stack' = SubSeq(stack, 1, Len(stack) - 1)
  /\ pc' = "nodes_loop"
  /\ UNCHANGED <<AiScene, entry, Result, ProcResult, MaterialList, mat_i,
                 MeshData, ret, Root>>
  /\ UNCHANGED buildVars

\* return MeshData;  (the result out-parameter is not assigned)
LoadReturnMeshData ==
  /\ pc = "nodes_loop"
  /\ stack = <<>>
  /\ ret' = MeshData
  /\ pc' = "done"
  /\ UNCHANGED <<AiScene, entry, Result, ProcResult, MaterialList, mat_i,
                 MeshData, stack, Root>>
  /\ UNCHANGED buildVars

\* ------------------------------- Construct*MeshComponentFromAssetFile
\* ConstructProceduralMeshComponentFromAssetFile: the call up to LoadAiScene
ConstructProceduralMeshComponentFromAssetFile ==
  /\ pc = "idle"
  /\ entry' = "ConstructProceduralMeshComponentFromAssetFile"
  /\ pc' = "scene_loaded"
  /\ UNCHANGED <<AiScene, Result, ProcResult, MaterialList, mat_i, MeshData,
                 stack, ret, Root>>
  /\ UNCHANGED buildVars

\* ConstructStaticMeshComponentFromAssetFile: declares the local result
\* without an initialiser and calls the Procedural variant
ConstructStaticMeshComponentFromAssetFile ==
  /\ pc = "idle"
  /\ entry' = "ConstructStaticMeshComponentFromAssetFile"
  /\ ProcResult' \in IndeterminateResult
  /\ pc' = "scene_loaded"
  /\ UNCHANGED <<AiScene, Result, MaterialList, mat_i, MeshData, stack, ret,
                 Root>>
  /\ UNCHANGED buildVars

\* ConstructDynamicMeshComponentFromAssetFile: the same protocol
ConstructDynamicMeshComponentFromAssetFile ==
  /\ pc = "idle"
  /\ entry' = "ConstructDynamicMeshComponentFromAssetFile"
  /\ ProcResult' \in IndeterminateResult
  /\ pc' = "scene_loaded"
  /\ UNCHANGED <<AiScene, Result, MaterialList, mat_i, MeshData, stack, ret,
                 Root>>
  /\ UNCHANGED buildVars

\* Procedural variant: if (nullptr == AiScene) { result = Failure;
\* return nullptr; }; the out-parameter is the caller's Result, or the local
\* of the Static/Dynamic variant
ProceduralReturnFailure ==
  /\ pc = "scene_loaded"
  /\ entry \notin LoadEntries
  /\ AiScene.null
  /\ IF entry \in DerivedEntries
     THEN /\ ProcResult' = "Failure"
          /\ Root' = "nullptr"
          /\ pc' = "proc_returned"
          /\ UNCHANGED Result
     ELSE /\ Result' = "Failure"
          /\ Root' = "nullptr"
          /\ pc' = "done"
          /\ UNCHANGED ProcResult
  /\ UNCHANGED <<AiScene, entry, MaterialList, mat_i, MeshData, stack, ret>>
  /\ UNCHANGED buildVars

\* Procedural variant: GenerateMaterialInstances and
\* ConstructProceduralMeshComponentTree, return the root (the out-parameter
\* is not assigned)
ProceduralReturnTree ==
  /\ pc = "proc_tree"
  /\ IF SceneIsFatal(AiScene)
     THEN /\ pc' = "fatal"
          /\ UNCHANGED Root
     ELSE /\ Root' = "ProcMeshComp"
          /\ pc' = IF entry \in DerivedEntries THEN "proc_returned" ELSE "done"
  /\ UNCHANGED <<AiScene, entry, Result, ProcResult, MaterialList, mat_i,
                 MeshData, stack, ret>>
  /\ UNCHANGED buildVars

\* Static/Dynamic variant: if (Failure == local result) { Result = Failure;
\* return nullptr; }
DerivedReturnFailure ==
  /\ pc = "proc_returned"
  /\ ProcResult = "Failure"
  /\ Result' = "Failure"
  /\ Root' = "nullptr"
  /\ pc' = "done"
  /\ UNCHANGED <<AiScene, entry, ProcResult, MaterialList, mat_i, MeshData,
                 stack, ret>>
  /\ UNCHANGED buildVars

\* Static/Dynamic variant: Construct{Static,Dynamic}MeshComponentTree from
\* *ProceduralMeshComponentTreeRoot; Result = Success
DerivedReturnTree ==
  /\ pc = "proc_returned"
  /\ ProcResult # "Failure"
  /\ Root # "nullptr"
  /\ Root' = IF entry = "ConstructStaticMeshComponentFromAssetFile"
             THEN "StaticMeshComp" ELSE "DynamicMeshComp"
  /\ Result' = "Success"
  /\ pc' = "done"
  /\ UNCHANGED <<AiScene, entry, ProcResult, MaterialList, mat_i, MeshData,
                 stack, ret>>
  /\ UNCHANGED buildVars

Next ==
  \/ LoadMeshFromAssetFile
  \/ LoadMeshFromAssetData
  \/ LoadReturnFailure
  \/ TransformToUECoordinateSystem
  \/ GenerateMaterialList_Enter
  \/ GenerateMaterialList_Iterate
  \/ GenerateMaterialList_Return
  \/ ConstructMeshData_Root
  \/ ConstructMeshData_Child
  \/ ConstructMeshData_Return
  \/ LoadReturnMeshData
  \/ ConstructProceduralMeshComponentFromAssetFile
  \/ ConstructStaticMeshComponentFromAssetFile
  \/ ConstructDynamicMeshComponentFromAssetFile
  \/ ProceduralReturnFailure
  \/ ProceduralReturnTree
  \/ DerivedReturnFailure
  \/ DerivedReturnTree

Spec == Init /\ [][Next]_vars

\* =========================================================================
\* Part 2: reconstruction from FLoadedMeshData.  GenerateMaterialInstances
\* (AssetConstructorHelpers.cpp) and the template
\* ConstructMeshComponentFromMeshData (AssetConstructorHelpers.h).
\* A UObject pointer is the position of the object in Objects; 0 is nullptr.
\* =========================================================================

\* ---------------------------------------------------------------- bounds
MaxBuildNodes == 3
MaxBuildSections == 2
MaxCoord == 1

\* ------------------------------------------------- FTransform and FMatrix
\* Plane transforms: a rotation by quarter turns, a uniform scale and a
\* translation.  A matrix is the affine map of row vectors
\*   (x, y) |-> (x*xx + y*yx + tx, x*xy + y*yy + ty).
FTransform(q, s, t) == [Rotation |-> q, Scale3D |-> s, Translation |-> t]

Identity == FTransform(0, 1, <<0, 0>>)

Cos(q) == CASE q = 0 -> 1 [] q = 1 -> 0 [] q = 2 -> -1 [] q = 3 -> 0
Sin(q) == CASE q = 0 -> 0 [] q = 1 -> 1 [] q = 2 -> 0 [] q = 3 -> -1

\* FTransform::ToMatrixWithScale
ToMatrixWithScale(T) ==
  [xx |-> T.Scale3D * Cos(T.Rotation), xy |-> T.Scale3D * Sin(T.Rotation),
   yx |-> -(T.Scale3D * Sin(T.Rotation)), yy |-> T.Scale3D * Cos(T.Rotation),
   tx |-> T.Translation[1], ty |-> T.Translation[2]]

\* FMatrix::operator*
MatMul(A, B) ==
  [xx |-> A.xx * B.xx + A.xy * B.yx, xy |-> A.xx * B.xy + A.xy * B.yy,
   yx |-> A.yx * B.xx + A.yy * B.yx, yy |-> A.yx * B.xy + A.yy * B.yy,
   tx |-> A.tx * B.xx + A.ty * B.yx + B.tx,
   ty |-> A.tx * B.xy + A.ty * B.yy + B.ty]

Abs(x) == IF x < 0 THEN -x ELSE x

\* FTransform(const FMatrix&): scale from the length of the X axis, rotation
\* from the normalised axes, translation from the origin row
FTransformFromMatrix(M) ==
  LET s == Abs(M.xx) + Abs(M.xy)
      q == IF M.xx > 0 THEN 0 ELSE IF M.xy > 0 THEN 1
           ELSE IF M.xx < 0 THEN 2 ELSE IF M.xy < 0 THEN 3 ELSE 0
  IN FTransform(q, s, <<M.tx, M.ty>>)

\* FQuat::RotateVector of the rotation part
RotateVector(q, v) ==
  <<v[1] * Cos(q) - v[2] * Sin(q), v[1] * Sin(q) + v[2] * Cos(q)>>

\* FTransform::TransformFVector4 of a position (W = 1)
TransformFVector4(T, v) ==
  LET r == RotateVector(T.Rotation, <<T.Scale3D * v[1], T.Scale3D * v[2]>>)
  IN <<r[1] + T.Translation[1], r[2] + T.Translation[2]>>

\* ------------------------------------------------------ FLoadedMeshData
\* section number tag of a node: one vertex, normal and tangent that tell
\* the sections apart
LoadedSection(tag, mat) ==
  [Vertices |-> <<<<tag, 1>>>>, Triangles |-> <<0, 0, 0>>,
   Normals |-> <<<<0, 1>>>>, UV0Channel |-> <<<<tag, tag>>>>,
   VertexColors0 |-> <<>>,
   Tangents |-> <<[TangentX |-> <<1, 0>>, bFlipTangentY |-> FALSE]>>,
   MaterialIndex |-> mat]

LoadedNode(parent, name, transform, sections) ==
  [ParentNodeIndex |-> parent, Name |-> name,
   RelativeTransform |-> transform, Sections |-> sections]

LoadedMaterial(status) ==
  [Color |-> IF status = "ColorIsSet" THEN "Red" ELSE "ForceInit",
   CompressedTextureData |->
     IF status = "TextureIsSet" THEN <<137, 80>> ELSE <<>>,
   ColorStatus |-> status]

\* the cases of the switch over EColorStatus; "Invalid" is any other value
EColorStatus ==
  {"None", "ColorIsSet", "TextureIsSet", "TextureWasSetButError", "Invalid"}

\* ---------------------------------------------------------------- UObject
nullptr == 0

\* the value of an array slot left by TArray::AddUninitialized
Uninitialized == -1

\* NewObject<Class>(Outer): a default-constructed object
NewObject(Class, Outer) ==
  [Class |-> Class, Outer |-> Outer, RelativeTransform |-> Identity,
   NetAddressable |-> FALSE, Sections |-> <<>>, Materials |-> <<>>,
   AttachParent |-> nullptr, Attached |-> "none", Registered |-> 0,
   Calls |-> <<>>,
   Parameters |-> <<>>, Mesh |-> nullptr, Description |-> <<>>]

\* TArray: write element i (0-based), growing the array with pad if needed
SetElement(arr, i, v, pad) ==
  [k \in 1..(IF i + 1 > Len(arr) THEN i + 1 ELSE Len(arr)) |->
     IF k = i + 1 THEN v ELSE IF k <= Len(arr) THEN arr[k] ELSE pad]

\* IsEmpty that never reports an empty array
IsEmpty_Never(arr) == FALSE

\* TArray::IsEmpty
IsEmpty(arr) == Len(arr) = 0

\* TArray::operator[] range check
InRange(arr, i) == i >= 0 /\ i < Len(arr)

\* FProcMeshSection(): what SetNum leaves in a section that was not created
EmptyProcMeshSection ==
  [Vertices |-> <<>>, Triangles |-> <<>>, Normals |-> <<>>,
   UV0Channel |-> <<>>, VertexColors0 |-> <<>>, Tangents |-> <<>>,
   CreateCollision |-> FALSE, bSRGBConversion |-> FALSE]

\* UProceduralMeshComponent::CreateMeshSection_LinearColor: the section
\* holds the arguments of the call
CreateMeshSection_LinearColor(comp, SectionIndex, Vertices, Triangles, Normals, UV0, VertexColors, Tangents) ==
  [comp EXCEPT !.Sections =
     SetElement(@, SectionIndex,
                [Vertices |-> Vertices, Triangles |-> Triangles,
                 Normals |-> Normals, UV0Channel |-> UV0,
                 VertexColors0 |-> VertexColors, Tangents |-> Tangents,
                 CreateCollision |-> TRUE, bSRGBConversion |-> FALSE],
                EmptyProcMeshSection)]

\* UMeshComponent::SetMaterial(ElementIndex, Material)
SetMaterial(comp, ElementIndex, Material) ==
  [comp EXCEPT !.Materials = SetElement(@, ElementIndex, Material, nullptr)]

\* --------------------------------------------- GenerateMaterialInstances
\* FImageUtils::ImportBufferAsTexture2D returns nullptr for a buffer that
\* is not an encoded image (an empty one in particular)
IsEncodedImage(Buffer) == Len(Buffer) > 0 /\ Buffer[1] = 137

\* the case labels without the failed-texture status
LogOnlyStatuses_NoError == {"None"}

\* the case labels of the switch whose body logs and breaks
LogOnlyStatuses == {"None", "TextureWasSetButError"}

\* one iteration of the loop for material i over the objects objs: the new
\* objects, the instance pointer and whether a verifyf failed
MaterialInstanceOf(objs, owner, parent, MaterialData) ==
  LET ptr == Len(objs) + 1
      inst == NewObject("UMaterialInstanceDynamic", owner)
      status == MaterialData.ColorStatus
  IN CASE status = "ColorIsSet" ->
            IF ~parent.HasParameters
            THEN [Objects |-> Append(objs, inst), Instance |-> ptr,
                  Fatal |-> TRUE]
            ELSE [Objects |->
                    Append(objs,
                      [inst EXCEPT !.Parameters =
                         <<<<"TextureBlendIntensityForBaseColor", <<0>>>>,
                           <<"BaseColor4", <<MaterialData.Color>>>>>>]),
                  Instance |-> ptr, Fatal |-> FALSE]
       [] status = "TextureIsSet" ->
            LET decoded == IsEncodedImage(MaterialData.CompressedTextureData)
                withTex ==
                  IF decoded
                  THEN Append(Append(objs, inst),
                              [NewObject("UTexture2D", "Transient") EXCEPT
                                 !.Description =
                                    MaterialData.CompressedTextureData])
                  ELSE Append(objs, inst)
                Texture0 == IF decoded THEN ptr + 1 ELSE nullptr
            IN IF ~parent.HasParameters
               THEN [Objects |-> withTex, Instance |-> ptr, Fatal |-> TRUE]
               ELSE [Objects |->
                       [withTex EXCEPT ![ptr].Parameters =
                          <<<<"TextureBlendIntensityForBaseColor", <<1>>>>,
                            <<"BaseColorTexture", <<Texture0>>>>>>],
                     Instance |-> ptr, Fatal |-> FALSE]
       [] status \in LogOnlyStatuses ->
            [Objects |-> Append(objs, inst), Instance |-> ptr,
             Fatal |-> FALSE]
       [] OTHER ->
            [Objects |-> Append(objs, inst), Instance |-> ptr,
             Fatal |-> TRUE]

\* the loop from material i on; acc is the state after materials 0..i-1
RECURSIVE GenerateMaterialInstances_Loop(_, _, _, _, _)
GenerateMaterialInstances_Loop(acc, owner, parent, MaterialDataList, i) ==
  IF i >= Len(MaterialDataList) THEN acc
  ELSE LET one == MaterialInstanceOf(acc.Objects, owner, parent,
                                     At(MaterialDataList, i))
       IN IF one.Fatal
          THEN [Objects |-> one.Objects,
                MaterialInstances |-> acc.MaterialInstances, Fatal |-> TRUE]
          ELSE GenerateMaterialInstances_Loop(
                 [Objects |-> one.Objects,
                  MaterialInstances |->
                    SetElement(acc.MaterialInstances, i, one.Instance,
                               Uninitialized),
                  Fatal |-> FALSE],
                 owner, parent, MaterialDataList, i + 1)

\* GenerateMaterialInstances(Owner, MaterialDataList, ParentMaterialInterface)
GenerateMaterialInstances(objs, owner, parent, MaterialDataList) ==
  GenerateMaterialInstances_Loop(
    [Objects |-> objs,
     MaterialInstances |->
       [k \in 1..Len(MaterialDataList) |-> Uninitialized],
     Fatal |-> FALSE],
    owner, parent, MaterialDataList, 0)

\* ------------------------------ ConstructMeshComponentFromMeshData<T>
MeshComponentTypes ==
  {"UProceduralMeshComponent", "UStaticMeshComponent",
   "UDynamicMeshComponent"}

\* MaterialInstanceFor indexing the instances by the section number
MaterialInstanceFor_BySection(Instances, Section, Section_i) ==
  At(Instances, Section_i % Len(Instances))

\* const auto& MaterialInstance = MaterialInstances[MaterialIndex];
MaterialInstanceFor(Instances, Section, Section_i) ==
  At(Instances, Section.MaterialIndex)

\* the loop over Section_i from j on, creating sections on the component at
\* ptr; Fatal when MaterialInstances[MaterialIndex] is out of range
RECURSIVE CreateMeshSections(_, _, _, _, _)
CreateMeshSections(objs, ptr, Sections, Instances, j) ==
  IF j >= Len(Sections) THEN [Objects |-> objs, Fatal |-> FALSE]
  ELSE LET Section == At(Sections, j)
           created ==
             [objs EXCEPT ![ptr] =
                CreateMeshSection_LinearColor(
                  @, j, Section.Vertices, Section.Triangles, Section.Normals,
                  Section.UV0Channel, Section.VertexColors0,
                  Section.Tangents)]
       IN IF ~InRange(Instances, Section.MaterialIndex)
          THEN [Objects |-> created, Fatal |-> TRUE]
          ELSE CreateMeshSections(
                 [created EXCEPT ![ptr] =
                    SetMaterial(@, j, MaterialInstanceFor(Instances, Section,
                                                          j))],
                 ptr, Sections, Instances, j + 1)

\* the body of the loop over the nodes up to the attachment: the new
\* MeshComponent (at Len(objs) + 1) with its mesh
NodeComponent(objs, T, owner, Node, Instances) ==
  LET ptr == Len(objs) + 1
      MeshComponent ==
        [NewObject(T, owner) EXCEPT
           !.RelativeTransform = Node.RelativeTransform,
           !.NetAddressable = TRUE]
      withComp == Append(objs, MeshComponent)
  IN IF T = "UProceduralMeshComponent"
     THEN CreateMeshSections(withComp, ptr, Node.Sections, Instances, 0)
     ELSE LET src == ptr + 1
              SrcProcMeshComp ==
                [NewObject("UProceduralMeshComponent", owner) EXCEPT
                   !.RelativeTransform = Node.RelativeTransform]
              built == CreateMeshSections(Append(withComp, SrcProcMeshComp),
                                          src, Node.Sections, Instances, 0)
              \* BuildMeshDescription(SrcProcMeshComp)
              ProceduralMeshDescription == built.Objects[src].Sections
          IN IF built.Fatal THEN built
             ELSE IF T = "UStaticMeshComponent"
             THEN LET StaticMesh ==
                        [NewObject("UStaticMesh", owner) EXCEPT
                           !.Description = ProceduralMeshDescription,
                           !.Materials = built.Objects[src].Materials]
                  IN [Objects |->
                        Append([built.Objects EXCEPT ![ptr].Mesh = src + 1],
                               StaticMesh),
                      Fatal |-> FALSE]
             ELSE [Objects |->
                     [built.Objects EXCEPT
                        ![ptr].Materials = built.Objects[src].Materials,
                        ![ptr].Description = ProceduralMeshDescription],
                   Fatal |-> FALSE]

\* AttachToParent registering the component before its attachment is set up
AttachToParent_RegisterFirst(MeshComponent, ParentMeshComp, Register) ==
  IF Register
  THEN [MeshComponent EXCEPT
          !.AttachParent = ParentMeshComp,
          !.Attached = "SetupAttachment",
          !.Registered = @ + 1,
          !.Calls = @ \o <<"RegisterComponent", "SetupAttachment">>]
  ELSE [MeshComponent EXCEPT
          !.AttachParent = ParentMeshComp,
          !.Attached = "AttachToComponent",
          !.Calls = Append(@, "AttachToComponent")]

\* the branch of a non-root node: SetupAttachment(ParentMeshComp) and then
\* RegisterComponent() when ShouldRegisterComponentToOwner is on,
\* AttachToComponent(ParentMeshComp, KeepRelativeTransform) when it is off
AttachToParent(MeshComponent, ParentMeshComp, Register) ==
  IF Register
  THEN [MeshComponent EXCEPT
          !.AttachParent = ParentMeshComp,
          !.Attached = "SetupAttachment",
          !.Registered = @ + 1,
          !.Calls = @ \o <<"SetupAttachment", "RegisterComponent">>]
  ELSE [MeshComponent EXCEPT
          !.AttachParent = ParentMeshComp,
          !.Attached = "AttachToComponent",
          !.Calls = Append(@, "AttachToComponent")]

\* ParentMeshComponent taking the root component for every node
ParentMeshComponent_Root(List, Node) == At(List, 0)

\* const auto& ParentMeshComp = MeshComponentList[ParentNodeIndex];
ParentMeshComponent(List, Node) == At(List, Node.ParentNodeIndex)

\* the checks at entry, MeshComponentList.AddUninitialized and
\* GenerateMaterialInstances
ConstructMeshComponentFromMeshData_Enter ==
  /\ pc = "idle"
  /\ MeshComponentT \in MeshComponentTypes
  /\ entry' = "ConstructMeshComponentFromMeshData"
  /\ IF \/ IsEmpty(MeshData.NodeList)
        \/ ParentMaterialInterface.null
        \/ Owner = "nullptr"
     THEN /\ pc' = "fatal"
          /\ UNCHANGED <<MeshComponentList, MaterialInstances, Objects>>
     ELSE LET gen == GenerateMaterialInstances(Objects, Owner,
                                               ParentMaterialInterface,
                                               MeshData.MaterialList)
          IN /\ MeshComponentList' =
                  [k \in 1..Len(MeshData.NodeList) |-> Uninitialized]
             /\ MaterialInstances' = gen.MaterialInstances
             /\ Objects' = gen.Objects
             /\ pc' = IF gen.Fatal THEN "fatal" ELSE "build_loop"
  /\ Node_i' = 0
  /\ UNCHANGED <<AiScene, Result, ProcResult, MaterialList, mat_i, MeshData,
                 stack, ret, Root, MeshComponentT, ParentMaterialInterface,
                 Owner, ShouldRegisterComponentToOwner, Returned,
                 latentVars>>

\* one iteration of the loop over the nodes
ConstructMeshComponentFromMeshData_Iterate ==
  /\ pc = "build_loop"
  /\ entry = "ConstructMeshComponentFromMeshData"
  /\ Node_i < Len(MeshData.NodeList)
  /\ LET Node == At(MeshData.NodeList, Node_i)
         ptr == Len(Objects) + 1
         made == NodeComponent(Objects, MeshComponentT, Owner, Node,
                               MaterialInstances)
         ParentNodeIndex == Node.ParentNodeIndex
     IN IF made.Fatal
        THEN /\ Objects' = made.Objects
             /\ pc' = "fatal"
             /\ UNCHANGED <<MeshComponentList, Node_i>>
        ELSE IF Node_i = 0
        THEN /\ Objects' =
                  IF ShouldRegisterComponentToOwner
                  THEN [made.Objects EXCEPT
                          ![ptr].Registered = @ + 1,
                          ![ptr].Calls = Append(@, "RegisterComponent")]
                  ELSE made.Objects
             /\ MeshComponentList' = SetElement(MeshComponentList, Node_i,
                                                ptr, Uninitialized)
             /\ Node_i' = Node_i + 1
             /\ pc' = "build_loop"
        ELSE IF ~InRange(MeshComponentList, ParentNodeIndex)
        THEN /\ Objects' = made.Objects
             /\ pc' = "fatal"
             /\ UNCHANGED <<MeshComponentList, Node_i>>
        ELSE LET ParentMeshComp == ParentMeshComponent(MeshComponentList, Node)
             IN \/ /\ Objects' =
                        [made.Objects EXCEPT
                           ![ptr] = AttachToParent(
                                      @, ParentMeshComp,
                                      ShouldRegisterComponentToOwner)]
                   /\ MeshComponentList' =
                        SetElement(MeshComponentList, Node_i, ptr,
                                   Uninitialized)
                   /\ Node_i' = Node_i + 1
                   /\ pc' = "build_loop"
                \* the slot of the parent was never written: the call goes
                \* through an indeterminate pointer and may also crash
                \/ /\ ParentMeshComp = Uninitialized
                   /\ Objects' = made.Objects
                   /\ pc' = "fatal"
                   /\ UNCHANGED <<MeshComponentList, Node_i>>
  /\ UNCHANGED <<AiScene, entry, Result, ProcResult, MaterialList, mat_i,
                 MeshData, stack, ret, Root, MeshComponentT,
                 ParentMaterialInterface, Owner,
                 ShouldRegisterComponentToOwner, MaterialInstances, Returned,
                 latentVars>>

\* return MeshComponentList[0];
ConstructMeshComponentFromMeshData_Return ==
  /\ pc = "build_loop"
  /\ entry = "ConstructMeshComponentFromMeshData"
  /\ Node_i >= Len(MeshData.NodeList)
  /\ IF InRange(MeshComponentList, 0)
     THEN /\ Returned' = At(MeshComponentList, 0)
          /\ pc' = "done"
     ELSE /\ pc' = "fatal"
          /\ UNCHANGED Returned
  /\ UNCHANGED <<AiScene, entry, Result, ProcResult, MaterialList, mat_i,
                 MeshData, stack, ret, Root, MeshComponentT,
                 ParentMaterialInterface, Owner,
                 ShouldRegisterComponentToOwner, MaterialInstances,
                 MeshComponentList, Node_i, Objects, latentVars>>

\* =========================================================================
\* Part 3: the flattened latent action,
\* FCreateMeshFromMeshDataOnProceduralMeshComponentLatentAction.
\* The constructor and UpdateOperation run on the game thread; a task
\* launched with UE::Tasks::Launch runs on a worker once its prerequisites
\* are completed.  A task handle is the position of the task in Tasks; 0 is
\* an invalid (default-constructed) handle.
\* =========================================================================
InvalidTask == 0

\* the task behind Tasks::Launch(.., Body, Prerequisites, ..): Body is named
\* by Kind and holds its captures; an invalid prerequisite is skipped
LaunchedTask(Kind, Prerequisites, Captured) ==
  [Kind |-> Kind, Prerequisites |-> Prerequisites, Captured |-> Captured,
   State |-> "launched", Result |-> <<>>]

\* a task with the value that is never completed
MakeCompletedTask_NotCompleted(Value) ==
  [Kind |-> "MakeCompletedTask", Prerequisites |-> <<>>, Captured |-> <<>>,
   State |-> "launched", Result |-> Value]

\* Tasks::MakeCompletedTask<FTransform>(Value)
MakeCompletedTask(Value) ==
  [Kind |-> "MakeCompletedTask", Prerequisites |-> <<>>, Captured |-> <<>>,
   State |-> "completed", Result |-> Value]

\* FTaskHandle::IsCompleted: an invalid handle counts as completed
IsCompleted(tasks, h) ==
  IF h = InvalidTask THEN TRUE ELSE tasks[h].State = "completed"

\* the scheduler runs a launched task once all its prerequisites completed
Schedulable(tasks, h) ==
  /\ tasks[h].State = "launched"
  /\ \A k \in 1..Len(tasks[h].Prerequisites) :
       IsCompleted(tasks, tasks[h].Prerequisites[k])

\* the tasks whose bodies are ordered before the body of task h: h itself
\* and, through the prerequisites given to Launch, the tasks before them
RECURSIVE OrderedBefore(_, _)
OrderedBefore(tasks, h) ==
  IF h = InvalidTask THEN {}
  ELSE {h} \cup UNION {OrderedBefore(tasks, tasks[h].Prerequisites[k]) :
                         k \in 1..Len(tasks[h].Prerequisites)}

\* a read of the game thread made when n tasks had been launched is ordered
\* before the body of task h when h, or a task ordered before h, was
\* launched by the game thread after the read
ReadOrderedBeforeTask(tasks, n, h) ==
  \E t \in OrderedBefore(tasks, h) : t > n

\* a write to the target component, with whether the constructor was
\* running when it was made
WrittenBy(comp, Call, Index, Constructing) ==
  [comp EXCEPT !.Writes =
     @ \cup {[Call |-> Call, Index |-> Index,
              Constructing |-> Constructing]}]

\* the target component is the owner of the material instances
TargetOwner == "InOutTargetProceduralMeshComponent"

\* the per-section tasks launched without prerequisite
SectionPrerequisites_None(CalcTFTask) == <<>>

\* the prerequisite given to the Launch of each of the three per-section
\* tasks
SectionPrerequisites(CalcTFTask) == <<CalcTFTask>>

\* the loop over Section_i from j on for one node; acc carries the tasks,
\* CreateMeshSectionTasks, the target and MeshSectionIndex
RECURSIVE LaunchSectionTasks(_, _, _, _, _)
LaunchSectionTasks(acc, Sections, CalcTFTask, Instances, j) ==
  IF j >= Len(Sections) THEN acc
  ELSE LET Section == At(Sections, j)
           n == Len(acc.Tasks)
           CalcVertices == n + 1
           CalcNormals == n + 2
           CalcTangents == n + 3
           CreateMeshSection == n + 4
           launched ==
             acc.Tasks \o
             <<LaunchedTask("CalcVerticesRelativeToTargetTask",
                            SectionPrerequisites(CalcTFTask),
                            [CalcTFTask |-> CalcTFTask,
                             Array |-> Section.Vertices]),
               LaunchedTask("CalcNormalsRelativeToTargetTask",
                            SectionPrerequisites(CalcTFTask),
                            [CalcTFTask |-> CalcTFTask,
                             Array |-> Section.Normals]),
               LaunchedTask("CalcTangentsRelativeToTargetTask",
                            SectionPrerequisites(CalcTFTask),
                            [CalcTFTask |-> CalcTFTask,
                             Array |-> Section.Tangents]),
               LaunchedTask("CreateMeshSectionTask_GameThread",
                            <<CalcVertices, CalcNormals, CalcTangents>>,
                            [CalcVerticesRelativeToTargetTask |->
                               CalcVertices,
                             CalcNormalsRelativeToTargetTask |-> CalcNormals,
                             CalcTangentsRelativeToTargetTask |->
                               CalcTangents,
                             MeshSectionIndex |-> acc.MeshSectionIndex,
                             Section |-> Section])>>
           added == Append(acc.CreateMeshSectionTasks, CreateMeshSection)
       IN IF ~InRange(Instances, Section.MaterialIndex)
          THEN [acc EXCEPT !.Tasks = launched,
                           !.CreateMeshSectionTasks = added,
                           !.Fatal = TRUE]
          ELSE LaunchSectionTasks(
                 [Tasks |-> launched,
                  CreateMeshSectionTasks |-> added,
                  Target |->
                    WrittenBy(SetMaterial(acc.Target, acc.MeshSectionIndex,
                                          At(Instances,
                                             Section.MaterialIndex)),
                              "SetMaterial", acc.MeshSectionIndex,
                              GameThread = "constructor"),
                  MeshSectionIndex |-> acc.MeshSectionIndex + 1,
                  Fatal |-> FALSE],
                 Sections, CalcTFTask, Instances, j + 1)

\* the root's own transform given as the transform of its parent
RootParentTransform_Relative(Node) == Node.RelativeTransform

\* the value of the completed task that stands for the parent of node 0
RootParentTransform(Node) == Identity

\* CalcTFTask launched without prerequisite
CalcTFPrerequisites_None(ParentCalcTFTask) == <<>>

\* the prerequisites given to the Launch of CalcTFTask
CalcTFPrerequisites(ParentCalcTFTask) == <<ParentCalcTFTask>>

\* IsRunning left at the value of its member initialiser
IsRunningWhenConstructed_Default == FALSE

\* IsRunning = true; the statement after the check of the NodeList
IsRunningWhenConstructed == TRUE

\* the constructor up to the loop: check, IsRunning = true,
\* GenerateMaterialInstances, CalcTFMatrixTasks.AddDefaulted
LatentAction_Enter ==
  /\ pc = "idle"
  /\ MeshComponentT = "none"
  /\ entry' = "FCreateMeshFromMeshDataOnProceduralMeshComponentLatentAction"
  /\ IF IsEmpty(MeshData.NodeList)
     THEN /\ pc' = "fatal"
          /\ UNCHANGED <<IsRunning, MaterialInstances, Objects,
                         CalcTFMatrixTasks, GameThread>>
     ELSE LET gen == GenerateMaterialInstances(Objects, TargetOwner,
                                               ParentMaterialInterface,
                                               MeshData.MaterialList)
          IN /\ IsRunning' = IsRunningWhenConstructed
             /\ MaterialInstances' = gen.MaterialInstances
             /\ Objects' = gen.Objects
             /\ CalcTFMatrixTasks' =
                  [k \in 1..Len(MeshData.NodeList) |-> InvalidTask]
             /\ GameThread' = "constructor"
             /\ pc' = IF gen.Fatal THEN "fatal" ELSE "latent_loop"
  /\ Node_i' = 0
  /\ MeshSectionIndex' = 0
  /\ CreateMeshSectionTasks' = <<>>
  /\ UNCHANGED <<AiScene, Result, ProcResult, MaterialList, mat_i, MeshData,
                 stack, ret, Root, MeshComponentT, ParentMaterialInterface,
                 Owner, ShouldRegisterComponentToOwner, MeshComponentList,
                 Returned, Tasks, TickerQueue, Target, Response, Sync>>

\* one iteration of the constructor's loop over the nodes: ParentCalcTFTask,
\* CalcTFTask and the tasks and the material of every section of the node
LatentAction_Iterate ==
  /\ pc = "latent_loop"
  /\ GameThread = "constructor"
  /\ Node_i < Len(MeshData.NodeList)
  /\ LET Node == At(MeshData.NodeList, Node_i)
         root == Node_i = 0
     IN IF ~root /\ ~InRange(CalcTFMatrixTasks, Node.ParentNodeIndex)
        THEN /\ pc' = "fatal"
             /\ UNCHANGED <<Node_i, Tasks, CalcTFMatrixTasks,
                            CreateMeshSectionTasks, Target, MeshSectionIndex>>
        ELSE LET withParent ==
                   IF root
                   THEN Append(Tasks,
                               MakeCompletedTask(RootParentTransform(Node)))
                   ELSE Tasks
                 ParentCalcTFTask ==
                   IF root THEN Len(withParent)
                   ELSE At(CalcTFMatrixTasks, Node.ParentNodeIndex)
                 CalcTFTask == Len(withParent) + 1
                 withCalcTF ==
                   Append(withParent,
                          LaunchedTask("CalcTFTask",
                                       CalcTFPrerequisites(ParentCalcTFTask),
                                       [ParentCalcTFTask |-> ParentCalcTFTask,
                                        RelativeTransform |->
                                          Node.RelativeTransform]))
                 done ==
                   LaunchSectionTasks(
                     [Tasks |-> withCalcTF,
                      CreateMeshSectionTasks |-> CreateMeshSectionTasks,
                      Target |-> Target,
                      MeshSectionIndex |-> MeshSectionIndex,
                      Fatal |-> FALSE],
                     Node.Sections, CalcTFTask, MaterialInstances, 0)
             IN /\ Tasks' = done.Tasks
                /\ CalcTFMatrixTasks' =
                     SetElement(CalcTFMatrixTasks, Node_i, CalcTFTask,
                                InvalidTask)
                /\ CreateMeshSectionTasks' = done.CreateMeshSectionTasks
                /\ Target' = done.Target
                /\ MeshSectionIndex' = done.MeshSectionIndex
                /\ Node_i' = IF done.Fatal THEN Node_i ELSE Node_i + 1
                /\ pc' = IF done.Fatal THEN "fatal" ELSE "latent_loop"
  /\ UNCHANGED <<AiScene, entry, Result, ProcResult, MaterialList, mat_i,
                 MeshData, stack, ret, Root, callVars, MaterialInstances,
                 Objects, hierVars, IsRunning, GameThread, TickerQueue,
                 Response, Sync>>

\* the end of the constructor: the task that waits for
\* CreateMeshSectionTasks is launched and the constructor returns
LatentAction_Return ==
  /\ pc = "latent_loop"
  /\ GameThread = "constructor"
  /\ Node_i >= Len(MeshData.NodeList)
  /\ Tasks' = Append(Tasks, LaunchedTask("AllCreateMeshSectionCompletedTask",
                                         CreateMeshSectionTasks, <<>>))
  /\ GameThread' = "idle"
  /\ pc' = "latent_launched"
  /\ UNCHANGED <<loaderVarsButPc, callVars, MaterialInstances, Node_i,
                 Objects, hierVars, IsRunning, MeshSectionIndex,
                 CalcTFMatrixTasks, CreateMeshSectionTasks, TickerQueue,
                 Target, Response, Sync>>

\* tasks run while the constructor is still launching and afterwards
TasksMayRun == pc \in {"latent_loop", "latent_launched"}

\* what every task action leaves alone
TaskFrame ==
  UNCHANGED <<loaderVarsButPc, callVars, MaterialInstances, Node_i, Objects,
              hierVars, MeshSectionIndex, CalcTFMatrixTasks,
              CreateMeshSectionTasks, GameThread, Response>>

\* FTaskHandle::GetResult asserts that the handle is valid
HasResult(tasks, h) == h # InvalidTask /\ tasks[h].State = "completed"

\* TransformToTarget without the parent's transform
TransformToTarget_RelativeOnly(RelativeTransform, ParentTransformToTarget) ==
  FTransformFromMatrix(ToMatrixWithScale(RelativeTransform))

\* FTransform(RelativeTransform.ToMatrixWithScale() *
\*            ParentTransformToTarget.ToMatrixWithScale())
TransformToTarget(RelativeTransform, ParentTransformToTarget) ==
  FTransformFromMatrix(MatMul(ToMatrixWithScale(RelativeTransform),
                              ToMatrixWithScale(ParentTransformToTarget)))

\* the body of CalcTFTask on a worker
CalcTFTask ==
  /\ TasksMayRun
  /\ \E h \in 1..Len(Tasks) :
       /\ Tasks[h].Kind = "CalcTFTask"
       /\ Schedulable(Tasks, h)
       /\ LET ParentCalcTFTask == Tasks[h].Captured.ParentCalcTFTask
          IN IF ~HasResult(Tasks, ParentCalcTFTask)
             THEN /\ pc' = "fatal"
                  /\ UNCHANGED Tasks
             ELSE /\ Tasks' =
                       [Tasks EXCEPT
                          ![h].State = "completed",
                          ![h].Result =
                             TransformToTarget(
                               Tasks[h].Captured.RelativeTransform,
                               Tasks[ParentCalcTFTask].Result)]
                  /\ UNCHANGED pc
  /\ UNCHANGED <<IsRunning, TickerQueue, Target, Sync>>
  /\ TaskFrame

\* TransformToTarget.Rotator().RotateVector(vector)
RotateByTransform(T, v) == RotateVector(T.Rotation, v)

\* FProcMeshTangent(Rotator.RotateVector(TangentX), bFlipTangentY)
RotateTangent(T, ProcMeshTangent) ==
  [TangentX |-> RotateVector(T.Rotation, ProcMeshTangent.TangentX),
   bFlipTangentY |-> ProcMeshTangent.bFlipTangentY]

\* the function that the lambda of each of the three per-section tasks
\* applies to an element of its array
RelativeToTarget(Kind, T, x) ==
  CASE Kind = "CalcVerticesRelativeToTargetTask" -> TransformFVector4(T, x)
    [] Kind = "CalcNormalsRelativeToTargetTask" -> RotateByTransform(T, x)
    [] Kind = "CalcTangentsRelativeToTargetTask" -> RotateTangent(T, x)

\* the body shared by the three per-section tasks: Algo::Transform of the
\* captured array with the result of CalcTFTask
CalcRelativeToTarget(Kind) ==
  /\ \E h \in 1..Len(Tasks) :
       /\ Tasks[h].Kind = Kind
       /\ Schedulable(Tasks, h)
       /\ LET CalcTF == Tasks[h].Captured.CalcTFTask
              Array == Tasks[h].Captured.Array
          IN IF ~HasResult(Tasks, CalcTF)
             THEN /\ pc' = "fatal"
                  /\ UNCHANGED Tasks
             ELSE /\ Tasks' =
                       [Tasks EXCEPT
                          ![h].State = "completed",
                          ![h].Result =
                             [k \in 1..Len(Array) |->
                                RelativeToTarget(Kind, Tasks[CalcTF].Result, Array[k])]]
                  /\ UNCHANGED pc
  /\ UNCHANGED <<IsRunning, TickerQueue, Target, Sync>>
  /\ TaskFrame

\* the body of CalcVerticesRelativeToTargetTask on a worker
CalcVerticesRelativeToTargetTask ==
  /\ TasksMayRun
  /\ CalcRelativeToTarget("CalcVerticesRelativeToTargetTask")

\* the body of CalcNormalsRelativeToTargetTask on a worker
CalcNormalsRelativeToTargetTask ==
  /\ TasksMayRun
  /\ CalcRelativeToTarget("CalcNormalsRelativeToTargetTask")

\* the body of CalcTangentsRelativeToTargetTask on a worker
CalcTangentsRelativeToTargetTask ==
  /\ TasksMayRun
  /\ CalcRelativeToTarget("CalcTangentsRelativeToTargetTask")

\* the body of CreateMeshSectionTask_GameThread on a worker:
\* ExecuteOnGameThread hands the inner function to the game thread and
\* returns, and the task is completed
CreateMeshSectionTask_GameThread ==
  /\ TasksMayRun
  /\ \E h \in 1..Len(Tasks) :
       /\ Tasks[h].Kind = "CreateMeshSectionTask_GameThread"
       /\ Schedulable(Tasks, h)
       /\ Tasks' = [Tasks EXCEPT ![h].State = "completed"]
       /\ TickerQueue' = TickerQueue \cup {h}
  /\ UNCHANGED <<pc, IsRunning, Target, Sync>>
  /\ TaskFrame

\* the game thread runs whatever it wants
GameThreadIsFree_Always == TRUE

\* the game thread runs one function at a time: the constructor, a function
\* given to ExecuteOnGameThread or a tick of the latent action manager
GameThreadIsFree == GameThread = "idle" /\ Target.Busy = {}

\* the function given to ExecuteOnGameThread is started by the game thread:
\* the three checks, then the call of CreateMeshSection_LinearColor begins
ExecuteOnGameThread ==
  /\ TasksMayRun
  /\ GameThreadIsFree
  /\ \E h \in TickerQueue :
       LET c == Tasks[h].Captured
       IN /\ TickerQueue' = TickerQueue \ {h}
          /\ IF \/ ~HasResult(Tasks, c.CalcVerticesRelativeToTargetTask)
                \/ ~HasResult(Tasks, c.CalcNormalsRelativeToTargetTask)
                \/ ~HasResult(Tasks, c.CalcTangentsRelativeToTargetTask)
             THEN /\ pc' = "fatal"
                  /\ UNCHANGED Target
             ELSE /\ Target' = [Target EXCEPT !.Busy = @ \cup {h}]
                  /\ UNCHANGED pc
          /\ Sync' = [Sync EXCEPT
                        !.GameThreadSaw = @ \cup OrderedBefore(Tasks, h)]
  /\ UNCHANGED <<Tasks, IsRunning>>
  /\ TaskFrame

\* the counter of the constructor read when the function runs
CapturedMeshSectionIndex_ByReference(c) == MeshSectionIndex

\* MeshSectionIndex inside the function: the copy made by the capture [=]
\* when the task was launched
CapturedMeshSectionIndex(c) == c.MeshSectionIndex

\* CreateMeshSection_LinearColor has written the section and the function
\* given to ExecuteOnGameThread returns
ExecuteOnGameThread_Return ==
  /\ TasksMayRun
  /\ \E h \in Target.Busy :
       LET c == Tasks[h].Captured
           built ==
             CreateMeshSection_LinearColor(
               Target, CapturedMeshSectionIndex(c),
               Tasks[c.CalcVerticesRelativeToTargetTask].Result,
               c.Section.Triangles,
               Tasks[c.CalcNormalsRelativeToTargetTask].Result,
               c.Section.UV0Channel, c.Section.VertexColors0,
               Tasks[c.CalcTangentsRelativeToTargetTask].Result)
       IN Target' =
            WrittenBy([built EXCEPT !.Busy = @ \ {h}],
                      "CreateMeshSection_LinearColor",
                      CapturedMeshSectionIndex(c),
                      GameThread = "constructor")
  /\ UNCHANGED <<pc, Tasks, IsRunning, TickerQueue, Sync>>
  /\ TaskFrame

\* the task launched last, with CreateMeshSectionTasks as prerequisites:
\* IsRunning = false
AllCreateMeshSectionCompletedTask ==
  /\ TasksMayRun
  /\ \E h \in 1..Len(Tasks) :
       /\ Tasks[h].Kind = "AllCreateMeshSectionCompletedTask"
       /\ Schedulable(Tasks, h)
       /\ Tasks' = [Tasks EXCEPT ![h].State = "completed"]
       /\ Sync' = [Sync EXCEPT
                     !.Unordered =
                        @ \cup {"read, write" : n \in
                                  {m \in Sync.Reads :
                                     ~ReadOrderedBeforeTask(Tasks, m, h)}}]
  /\ IsRunning' = FALSE
  /\ UNCHANGED <<pc, TickerQueue, Target>>
  /\ TaskFrame

\* the tasks that have written IsRunning: the completed tasks whose body is
\* IsRunning = false
IsRunningWriters(tasks) ==
  {h \in 1..Len(tasks) :
     /\ tasks[h].Kind = "AllCreateMeshSectionCompletedTask"
     /\ tasks[h].State = "completed"}

\* the output link is triggered whatever the condition
FinishAndTriggerIf_Always(R, Condition) ==
  [R EXCEPT !.Triggered = @ + 1, !.Removed = TRUE]

\* Response.FinishAndTriggerIf(Condition, ExecutionFunction, OutputLink,
\* CallbackTarget): when the condition holds the output link is triggered
\* and the action is marked for removal
FinishAndTriggerIf(R, Condition) ==
  IF Condition
  THEN [R EXCEPT !.Triggered = @ + 1, !.Removed = TRUE]
  ELSE [R EXCEPT !.StillRunning = TRUE]

\* UpdateOperation, called by the latent action manager once per tick while
\* the action is in its list: FinishAndTriggerIf(IsRunning == false, ..)
\* triggers the output link and has the action removed
UpdateOperation ==
  /\ pc = "latent_launched"
  /\ GameThreadIsFree
  /\ ~Response.Removed
  /\ Response' = FinishAndTriggerIf(Response, IsRunning = FALSE)
  /\ Sync' = [Sync EXCEPT
                !.Reads = @ \cup {Len(Tasks)},
                !.Unordered =
                   @ \cup {"write, read" : h \in
                             IsRunningWriters(Tasks) \ Sync.GameThreadSaw}]
  /\ UNCHANGED <<loaderVars, callVars, MaterialInstances, Node_i, Objects,
                 hierVars, IsRunning, MeshSectionIndex, CalcTFMatrixTasks,
                 CreateMeshSectionTasks, Tasks, GameThread, TickerQueue,
                 Target>>

\* ------------------------------------------------- the calls that are made
GoodMaterial == [null |-> FALSE, HasParameters |-> TRUE]
BareMaterial == [null |-> FALSE, HasParameters |-> FALSE]
NullMaterial == [null |-> TRUE, HasParameters |-> FALSE]

Translation(x, y) == FTransform(0, 1, <<x, y>>)

\* the local transforms that are tried: translations, a quarter turn and a
\* scaling, the last two with a translation
LocalTransforms(maxc) ==
  {Translation(x, y) : x \in 0..maxc, y \in 0..maxc}
    \cup {FTransform(1, 1, <<1, 0>>), FTransform(0, 2, <<0, 1>>)}

\* k sections that use the materials 0..nmat-1 in turn, starting with a
\* material whose index is not the section's
SectionsOf(node, k, nmat) ==
  [j \in 1..k |-> LoadedSection(10 * node + j, (node + j) % nmat)]

TwoMaterials == <<LoadedMaterial("ColorIsSet"), LoadedMaterial("TextureIsSet")>>

\* section counts of n nodes: node i has (i + 1) modulo (maxs + 1) sections,
\* that is 1, 2, .., maxs, 0, 1, ..
CyclingSections(n, maxs) == [x \in 1..n |-> x % (maxs + 1)]

\* section counts of n nodes: one section for the first node, maxs sections
\* for the second, none for the others
FrontSections(n, maxs) ==
  [x \in 1..n |-> IF x = 1 THEN 1 ELSE IF x = 2 THEN maxs ELSE 0]

NoSections(n) == [x \in 1..n |-> 0]

\* a well-formed node list for the parent array p (ids 1..n, root 1): node i
\* is translated by (i, 0) and has counts[i + 1] sections
TreeMeshData(p, counts) ==
  [NodeList |->
     [x \in 1..Len(p) |->
        LoadedNode(p[x] - 1, x, Translation(x - 1, 0),
                   SectionsOf(x - 1, counts[x], 2))],
   MaterialList |-> TwoMaterials]

AllParentArrays(maxn) == UNION {ParentArrays(n) : n \in 1..maxn}

\* a call of one of the two families of entry points
Call(T, md, parent, owner, register) ==
  [MeshComponentT |-> T, MeshData |-> md, ParentMaterialInterface |-> parent,
   Owner |-> owner, ShouldRegisterComponentToOwner |-> register]

\* hierarchical, every tree shape, component type and registration flag
HierTreeCalls ==
  {Call(T, TreeMeshData(p, CyclingSections(Len(p), MaxBuildSections)),
          GoodMaterial, "Actor", r) :
     T \in MeshComponentTypes, p \in AllParentArrays(MaxBuildNodes),
     r \in BOOLEAN}

\* material lists of every length and status, one section per material
MaterialMeshData(statuses) ==
  [NodeList |->
     <<LoadedNode(-1, 1, Identity,
                  [j \in 1..Len(statuses) |-> LoadedSection(j, j - 1)])>>,
   MaterialList |-> [k \in 1..Len(statuses) |-> LoadedMaterial(statuses[k])]]

StatusLists(maxm) == UNION {[1..n -> EColorStatus] : n \in 0..maxm}

HierMaterialCalls ==
  {Call("UProceduralMeshComponent", MaterialMeshData(st), pm, "Actor", TRUE) :
     st \in StatusLists(MaxMaterials), pm \in {GoodMaterial, BareMaterial}}

\* node lists that break a precondition: no node, a parent index that is
\* not an earlier node, a material index without a material
TwoNodes(parent) ==
  [NodeList |-> <<LoadedNode(-1, 1, Identity, <<>>),
                  LoadedNode(parent, 2, Translation(1, 0), <<>>),
                  LoadedNode(0, 3, Translation(0, 1), <<>>)>>,
   MaterialList |-> <<>>]

IllFormedMeshData ==
  {EmptyMeshData, [NodeList |-> <<>>, MaterialList |-> TwoMaterials],
   [NodeList |-> <<LoadedNode(-1, 1, Identity, <<LoadedSection(1, 1)>>)>>,
    MaterialList |-> <<LoadedMaterial("ColorIsSet")>>]}
    \cup {TwoNodes(parent) : parent \in {-1, 1, 2, 3}}

HierIllFormedCalls ==
  {Call(T, md, GoodMaterial, "Actor", r) :
     T \in MeshComponentTypes, md \in IllFormedMeshData, r \in BOOLEAN}
    \cup {Call(T, md, NullMaterial, "Actor", TRUE) :
            T \in MeshComponentTypes,
            md \in {EmptyMeshData, MaterialMeshData(<<"ColorIsSet">>)}}
    \cup {Call(T, md, GoodMaterial, "nullptr", TRUE) :
            T \in MeshComponentTypes,
            md \in {EmptyMeshData, MaterialMeshData(<<"ColorIsSet">>)}}

\* the latent action takes the material and the target by reference
LatentCall(md, parent) == Call("none", md, parent, "nullptr", FALSE)

\* flattened, every tree shape without sections
LatentBareTreeCalls ==
  {LatentCall(TreeMeshData(p, NoSections(Len(p))), GoodMaterial) :
     p \in AllParentArrays(MaxBuildNodes)}

\* flattened, one node with up to MaxBuildSections sections, and a root
\* and its child with one section each
LatentNodeCalls ==
  {LatentCall(TreeMeshData(<<0>>, <<k>>), GoodMaterial) :
     k \in 1..MaxBuildSections}
    \cup {LatentCall(TreeMeshData(<<0, 1>>, <<1, 1>>), GoodMaterial)}

\* flattened, every tree shape without and with sections
LatentTreeCalls ==
  LatentBareTreeCalls \cup LatentNodeCalls
    \cup {LatentCall(TreeMeshData(p, FrontSections(Len(p), MaxBuildSections)),
                     GoodMaterial) :
            p \in AllParentArrays(MaxBuildNodes - 1)}

\* flattened, the chain root -> A -> B with every choice of local
\* transforms; B has one section
ChainMeshData(T0, T1, T2) ==
  [NodeList |-> <<LoadedNode(-1, 1, T0, <<>>), LoadedNode(0, 2, T1, <<>>),
                  LoadedNode(1, 3, T2, <<LoadedSection(1, 0)>>)>>,
   MaterialList |-> <<LoadedMaterial("ColorIsSet")>>]

LatentChainCalls ==
  {LatentCall(ChainMeshData(T0, T1, T2), GoodMaterial) :
     T0 \in LocalTransforms(MaxCoord), T1 \in LocalTransforms(MaxCoord),
     T2 \in LocalTransforms(MaxCoord)}

\* material lists of every length and status, one section that uses the
\* last material
LastMaterialMeshData(statuses) ==
  [NodeList |->
     <<LoadedNode(-1, 1, Identity,
                  IF Len(statuses) = 0 THEN <<>>
                  ELSE <<LoadedSection(1, Len(statuses) - 1)>>)>>,
   MaterialList |-> [k \in 1..Len(statuses) |-> LoadedMaterial(statuses[k])]]

LatentMaterialCalls ==
  {LatentCall(LastMaterialMeshData(st), pm) :
     st \in StatusLists(MaxMaterials), pm \in {GoodMaterial, BareMaterial}}

LatentIllFormedCalls ==
  {LatentCall(md, GoodMaterial) : md \in IllFormedMeshData}

Calls ==
  HierTreeCalls \cup HierMaterialCalls \cup HierIllFormedCalls
    \cup LatentTreeCalls \cup LatentChainCalls \cup LatentMaterialCalls
    \cup LatentIllFormedCalls

\* ------------------------------------------------------ the specification
BuildInit ==
  /\ AiScene = NullScene
  /\ pc = "idle"
  /\ entry = "none"
  /\ Result = "Failure"
  /\ ProcResult = "unset"
  /\ MaterialList = <<>>
  /\ mat_i = 0
  /\ stack = <<>>
  /\ ret = EmptyMeshData
  /\ Root = "unset"
  /\ \E c \in Calls :
       /\ MeshComponentT = c.MeshComponentT
       /\ MeshData = c.MeshData
       /\ ParentMaterialInterface = c.ParentMaterialInterface
       /\ Owner = c.Owner
       /\ ShouldRegisterComponentToOwner = c.ShouldRegisterComponentToOwner
  /\ MaterialInstances = <<>>
  /\ MeshComponentList = <<>>
  /\ Node_i = 0
  /\ Objects = <<>>
  /\ Returned = nullptr
  /\ IsRunning = FALSE
  /\ MeshSectionIndex = 0
  /\ CalcTFMatrixTasks = <<>>
  /\ CreateMeshSectionTasks = <<>>
  /\ Tasks = <<>>
  /\ GameThread = "idle"
  /\ TickerQueue = {}
  /\ Target = [Sections |-> <<>>, Materials |-> <<>>, Writes |-> {},
               Busy |-> {}]
  /\ Response = [Triggered |-> 0, Removed |-> FALSE, StillRunning |-> FALSE]
  /\ Sync = NoSync

BuildNext ==
  \/ ConstructMeshComponentFromMeshData_Enter
  \/ ConstructMeshComponentFromMeshData_Iterate
  \/ ConstructMeshComponentFromMeshData_Return
  \/ LatentAction_Enter
  \/ LatentAction_Iterate
  \/ LatentAction_Return
  \/ CalcTFTask
  \/ CalcVerticesRelativeToTargetTask
  \/ CalcNormalsRelativeToTargetTask
  \/ CalcTangentsRelativeToTargetTask
  \/ CreateMeshSectionTask_GameThread
  \/ ExecuteOnGameThread
  \/ ExecuteOnGameThread_Return
  \/ AllCreateMeshSectionCompletedTask
  \/ UpdateOperation

BuildSpec == BuildInit /\ [][BuildNext]_vars

\* the steps of the game thread: the constructor, the functions given to
\* ExecuteOnGameThread and the polls of the latent action manager
GameThreadStep ==
  \/ LatentAction_Enter
  \/ LatentAction_Iterate
  \/ LatentAction_Return
  \/ ExecuteOnGameThread
  \/ ExecuteOnGameThread_Return
  \/ UpdateOperation

\* the steps of the worker pool: the bodies of the launched tasks
WorkerStep ==
  \/ CalcTFTask
  \/ CalcVerticesRelativeToTargetTask
  \/ CalcNormalsRelativeToTargetTask
  \/ CalcTangentsRelativeToTargetTask
  \/ CreateMeshSectionTask_GameThread
  \/ AllCreateMeshSectionCompletedTask

\* the calls of the flattened reconstruction whose completion is followed
\* under fairness: node lists without sections, one or two nodes with
\* sections, every material list
FairCalls == LatentBareTreeCalls \cup LatentNodeCalls \cup LatentMaterialCalls

FairBuildInit ==
  /\ BuildInit
  /\ Call(MeshComponentT, MeshData, ParentMaterialInterface, Owner,
          ShouldRegisterComponentToOwner) \in FairCalls

LatentNext == GameThreadStep \/ WorkerStep

\* the game thread keeps running while it has something to run
GameThreadFairness == WF_vars(GameThreadStep)

\* the worker pool keeps running tasks while a launched task has its
\* prerequisites completed
WorkerFairness == WF_vars(WorkerStep)

FairBuildSpec ==
  FairBuildInit /\ [][LatentNext]_vars /\ GameThreadFairness /\ WorkerFairness

\* ===================================================== checked properties
LoadSucceeded == pc = "done" /\ entry \in LoadEntries /\ ~AiScene.null
LoadFailed == pc = "done" /\ entry \in LoadEntries /\ AiScene.null

NodeCount(md) == Len(md.NodeList)
ParentIndexOf(md, i) == At(md.NodeList, i).ParentNodeIndex

ParentBeforeChild(md) ==
  /\ \A i \in 1..(NodeCount(md) - 1) :
        0 <= ParentIndexOf(md, i) /\ ParentIndexOf(md, i) < i
  /\ NodeCount(md) > 0 => ParentIndexOf(md, 0) \notin 0..(NodeCount(md) - 1)

\* C1: in the nodeList built by extraction every node after the first has a
\* parent index that is a smaller valid index, and the node at index 0
\* carries a parent index that is not an index of nodeList; this holds of
\* the list while it is built and of the list that is returned.
C1_ParentBeforeChild == ParentBeforeChild(MeshData) /\ ParentBeforeChild(ret)

C1_Witness ==
  /\ LoadSucceeded
  /\ NodeCount(ret) >= 4
  /\ \E i \in 2..(NodeCount(ret) - 1) :
        ParentIndexOf(ret, i) > 0 /\ ParentIndexOf(ret, i) < i - 1

\* the depth-first pre-order listing of the source tree below node x, the
\* children taken in the order of mChildren
RECURSIVE PreOrderFrom(_, _, _)
PreOrderFrom(children, x, k) ==
  IF k > Len(children[x]) THEN <<>>
  ELSE (<<children[x][k]>> \o PreOrderFrom(children, children[x][k], 1))
       \o PreOrderFrom(children, x, k + 1)

PreOrder(children, root) == <<root>> \o PreOrderFrom(children, root, 1)

SourceParent(children, x) ==
  IF \E y \in 1..Len(children) : x \in Range(children[y])
  THEN CHOOSE y \in 1..Len(children) : x \in Range(children[y])
  ELSE 0

\* the indices whose chain of parent indices passes through index i
RECURSIVE IsUnder(_, _, _)
IsUnder(md, j, i) ==
  IF j = i THEN TRUE
  ELSE IF j <= 0 THEN FALSE
  ELSE IsUnder(md, ParentIndexOf(md, j), i)

Subtree(md, i) == {j \in 0..(NodeCount(md) - 1) : IsUnder(md, j, i)}

\* C2: the returned nodeList is the depth-first pre-order listing of the
\* source tree with children in source order: every source node appears
\* exactly once, index 0 is the source root, a node's parent index is the
\* index of its source parent, and the nodes of any subtree fill a
\* contiguous index range that starts at the subtree's root.
C2_PreOrder ==
  LoadSucceeded =>
    /\ [k \in 1..NodeCount(ret) |-> ret.NodeList[k].Name]
         = PreOrder(AiScene.mChildren, AiScene.mRootNode)
    /\ \A x \in 1..Len(AiScene.mChildren) :
          Cardinality({k \in 1..NodeCount(ret) : ret.NodeList[k].Name = x}) = 1
    /\ At(ret.NodeList, 0).Name = AiScene.mRootNode
    /\ \A i \in 1..(NodeCount(ret) - 1) :
          At(ret.NodeList, ParentIndexOf(ret, i)).Name
            = SourceParent(AiScene.mChildren, At(ret.NodeList, i).Name)
    /\ \A i \in 0..(NodeCount(ret) - 1) :
          Subtree(ret, i) = i..(i + Cardinality(Subtree(ret, i)) - 1)

C2_Witness ==
  /\ LoadSucceeded
  /\ NodeCount(ret) >= 4
  /\ \E k \in 1..(NodeCount(ret) - 1) :
        ret.NodeList[k].Name > ret.NodeList[k + 1].Name
  /\ \E i \in 1..(NodeCount(ret) - 1) : Cardinality(Subtree(ret, i)) >= 2

\* C3: when the importer returns no scene, LoadMeshFromAssetFile and
\* LoadMeshFromAssetData set the result to Failure and return the default
\* LoadedMeshData: nodeList and materialList are both empty.
C3_FailureIsEmpty ==
  LoadFailed =>
    /\ Result = "Failure"
    /\ ret.NodeList = <<>>
    /\ ret.MaterialList = <<>>

C3_Witness == LoadFailed /\ Result = "Failure" /\ ret = EmptyMeshData

\* C4: when the scene loads, the result out-parameter of
\* LoadMeshFromAssetFile / LoadMeshFromAssetData equals Success after the
\* call, whatever it held before, and the returned data is the populated one.
C4_SuccessIsReported ==
  LoadSucceeded => Result = "Success" /\ NodeCount(ret) > 0

ConstructEntries ==
  DerivedEntries \cup {"ConstructProceduralMeshComponentFromAssetFile"}

\* C5: for each Construct*MeshComponentFromAssetFile the result is Failure
\* and the root is null exactly when the scene fails to load, and when the
\* scene loads the result is Success and the root is non-null, whatever the
\* intermediate result variable held.
C5_ConstructResult ==
  (pc = "done" /\ entry \in ConstructEntries) =>
    /\ (Result = "Failure" /\ Root = "nullptr") <=> AiScene.null
    /\ ~AiScene.null => Result = "Success" /\ Root # "nullptr"

\* the aiMesh behind section j (0-based) of the node at index i of md
SourceMeshOf(md, i, j) ==
  At(AiScene.mMeshes, At(AiScene.mNodeMeshes[At(md.NodeList, i).Name], j))

ChannelLengths(md) ==
  \A i \in 0..(NodeCount(md) - 1) :
    \A j \in 0..(Len(At(md.NodeList, i).Sections) - 1) :
      LET sec == At(At(md.NodeList, i).Sections, j)
      IN /\ Len(sec.Normals) \in {0, Len(sec.Vertices)}
         /\ Len(sec.UV0Channel) \in {0, Len(sec.Vertices)}
         /\ Len(sec.VertexColors0) \in {0, Len(sec.Vertices)}
         /\ Len(sec.Tangents) \in {0, Len(sec.Vertices)}

\* C6: in every section of every node produced by extraction, normals, uv0,
\* vertexColors0 and tangents each have length 0 or the number of vertices
\* of the section, never a partial length.
C6_ChannelLengths == ChannelLengths(MeshData) /\ ChannelLengths(ret)

C6_Witness ==
  /\ LoadSucceeded
  /\ \E i \in 0..(NodeCount(ret) - 1) :
       \E j \in 0..(Len(At(ret.NodeList, i).Sections) - 1) :
         LET sec == At(At(ret.NodeList, i).Sections, j)
         IN /\ Len(sec.Vertices) >= 2
            /\ Len(sec.Normals) = Len(sec.Vertices)
            /\ Len(sec.Tangents) = Len(sec.Vertices)
            /\ ~HasTangentsAndBitangents(SourceMeshOf(ret, i, j))

\* C7: a channel the source mesh does not have (normals, UV channel 0,
\* vertex-colour channel 0, tangents) yields an empty sequence in the
\* extracted section.
C7_AbsentChannelIsEmpty ==
  LoadSucceeded =>
    \A i \in 0..(NodeCount(ret) - 1) :
      \A j \in 0..(Len(At(ret.NodeList, i).Sections) - 1) :
        LET sec == At(At(ret.NodeList, i).Sections, j)
            m == SourceMeshOf(ret, i, j)
        IN /\ ~HasNormals(m) => sec.Normals = <<>>
           /\ ~HasTextureCoords0(m) => sec.UV0Channel = <<>>
           /\ ~HasVertexColors0(m) => sec.VertexColors0 = <<>>
           /\ ~HasTangentsAndBitangents(m) => sec.Tangents = <<>>

\* C8: a material that declares one diffuse texture which is not in the
\* scene's embedded-texture table, or whose texture-path query fails, gets
\* colorStatus = TextureLoadError (TextureWasSetButError) and an empty
\* compressedTextureData.
C8_MissingTextureIsError ==
  LoadSucceeded =>
    \A k \in 1..Len(AiScene.mMaterials) :
      LET am == AiScene.mMaterials[k]
      IN (am.NumTexture = 1
            /\ (am.GetTexture # "aiReturn_SUCCESS" \/ ~am.Embedded.found))
         => /\ ret.MaterialList[k].ColorStatus = "TextureWasSetButError"
            /\ ret.MaterialList[k].CompressedTextureData = <<>>

\* C9: for every extracted material colorStatus decides the payload:
\* TextureIsSet implies non-empty compressedTextureData, ColorIsSet implies
\* empty compressedTextureData, TextureLoadError implies neither payload is
\* populated, and colorStatus is never left unset.
C9_StatusDecidesPayload ==
  LoadSucceeded =>
    \A k \in 1..Len(ret.MaterialList) :
      LET md == ret.MaterialList[k]
      IN /\ md.ColorStatus = "TextureIsSet" => md.CompressedTextureData # <<>>
         /\ md.ColorStatus = "ColorIsSet" => md.CompressedTextureData = <<>>
         /\ md.ColorStatus = "TextureWasSetButError"
              => md.CompressedTextureData = <<>> /\ md.Color = "ForceInit"
         /\ md.ColorStatus # "None"

\* C10: the returned materialList has exactly one entry per source material
\* and entry i reflects source material i: flat colour or textured as the
\* source material is, with that material's colour or that material's
\* texture bytes.
C10_OneEntryPerMaterial ==
  LoadSucceeded =>
    /\ Len(ret.MaterialList) = Len(AiScene.mMaterials)
    /\ \A k \in 1..Len(ret.MaterialList) :
         LET md == ret.MaterialList[k]
             am == AiScene.mMaterials[k]
         IN /\ (md.ColorStatus = "ColorIsSet") <=> (am.NumTexture = 0)
            /\ md.Color # "ForceInit" => md.Color = am.Diffuse
            /\ (am.NumTexture = 0 /\ am.GetDiffuse = "aiReturn_SUCCESS")
                 => md.Color = am.Diffuse
            /\ md.CompressedTextureData # <<>>
                 => /\ am.NumTexture = 1 /\ am.Embedded.found
                    /\ md.CompressedTextureData
                         \in {am.Embedded.pcData, <<137, 80>> \o am.Embedded.pcData}
            /\ (am.NumTexture = 1 /\ am.GetTexture = "aiReturn_SUCCESS"
                  /\ am.Embedded.found)
                 => md.CompressedTextureData # <<>>

C10_Witness ==
  /\ LoadSucceeded
  /\ Len(ret.MaterialList) = 2
  /\ ret.MaterialList[1].ColorStatus = "TextureIsSet"
  /\ ret.MaterialList[1].CompressedTextureData # <<>>
  /\ ret.MaterialList[2].ColorStatus = "ColorIsSet"
  /\ ret.MaterialList[2].Color = "blue"

\* ------------------------------------------ hierarchical reconstruction
HierarchicalDone ==
  entry = "ConstructMeshComponentFromMeshData" /\ pc = "done"

\* the objects of the component type that was asked for
NodeObjects == {o \in 1..Len(Objects) : Objects[o].Class = MeshComponentT}

\* C11: when hierarchical reconstruction of a node list with parents before
\* children has returned, there is exactly one object of the component type
\* per node, the objects of different nodes are different, the object of
\* node i > 0 is attached to the object of node ParentNodeIndex[i], the
\* object of node 0 is attached to nothing, and the returned pointer is the
\* object of node 0; so object b is attached to object a exactly when the
\* node of b has the node of a as its parent.
C11_HierarchyIsomorphic ==
  (HierarchicalDone /\ ParentBeforeChild(MeshData)) =>
    LET n == NodeCount(MeshData)
        Obj(i) == At(MeshComponentList, i)
    IN /\ Len(MeshComponentList) = n
       /\ Cardinality(NodeObjects) = n
       /\ \A i \in 0..(n - 1) : Obj(i) \in NodeObjects
       /\ \A i, j \in 0..(n - 1) : i # j => Obj(i) # Obj(j)
       /\ \A i \in 1..(n - 1) :
            Objects[Obj(i)].AttachParent = Obj(ParentIndexOf(MeshData, i))
       /\ Objects[Obj(0)].AttachParent = nullptr
       /\ Returned = Obj(0)
       /\ \A i, j \in 0..(n - 1) :
            (Objects[Obj(j)].AttachParent = Obj(i))
              <=> (j > 0 /\ ParentIndexOf(MeshData, j) = i)

\* a static-mesh tree of three nodes has been built in which node 2 hangs
\* under node 1 and node 1 under the root
C11_Witness ==
  /\ HierarchicalDone
  /\ MeshComponentT = "UStaticMeshComponent"
  /\ NodeCount(MeshData) = 3
  /\ ParentIndexOf(MeshData, 1) = 0
  /\ ParentIndexOf(MeshData, 2) = 1
  /\ Objects[At(MeshComponentList, 2)].AttachParent = At(MeshComponentList, 1)
  /\ Returned = At(MeshComponentList, 0)

\* the sections and the material slots that a node's object draws: its own
\* for a procedural component, those of its static mesh, or those of the
\* mesh description it was set from
DrawableSections(o) ==
  IF Objects[o].Class = "UProceduralMeshComponent" THEN Objects[o].Sections
  ELSE IF Objects[o].Class = "UStaticMeshComponent"
  THEN IF Objects[o].Mesh = nullptr THEN <<>>
       ELSE Objects[Objects[o].Mesh].Description
  ELSE Objects[o].Description

DrawableMaterials(o) ==
  IF Objects[o].Class = "UStaticMeshComponent"
  THEN IF Objects[o].Mesh = nullptr THEN <<>>
       ELSE Objects[Objects[o].Mesh].Materials
  ELSE Objects[o].Materials

\* the mesh section holds the arrays of the loaded section
BuiltFrom(ProcSection, Section) ==
  /\ ProcSection.Vertices = Section.Vertices
  /\ ProcSection.Triangles = Section.Triangles
  /\ ProcSection.Normals = Section.Normals
  /\ ProcSection.UV0Channel = Section.UV0Channel
  /\ ProcSection.VertexColors0 = Section.VertexColors0
  /\ ProcSection.Tangents = Section.Tangents

\* ptr is a material instance and is the one stored for material k
GeneratedFrom(ptr, k) ==
  /\ ptr \in 1..Len(Objects)
  /\ Objects[ptr].Class = "UMaterialInstanceDynamic"
  /\ ptr = At(MaterialInstances, k)
  /\ \A m \in 0..(Len(MaterialInstances) - 1) :
       m # k => At(MaterialInstances, m) # ptr

C13_EmptyNodeListIsFatal ==
  Len(MeshData.NodeList) = 0 =>
    \/ entry = "none" /\ pc = "idle"
    \/ /\ pc = "fatal"
       /\ Objects = <<>>
       /\ MaterialInstances = <<>>
       /\ MeshComponentList = <<>>
       /\ Tasks = <<>>
       /\ TickerQueue = {}
       /\ IsRunning = FALSE

\* the latent action was constructed for no node and two materials
C13_Witness ==
  /\ entry = "FCreateMeshFromMeshDataOnProceduralMeshComponentLatentAction"
  /\ Len(MeshData.NodeList) = 0
  /\ Len(MeshData.MaterialList) = 2
  /\ pc = "fatal"
  /\ IsRunning = FALSE

\* a cause of a fatal error other than a material of status
\* TextureWasSetButError: a failed precondition of the entry point, a
\* material whose case verifies a missing parameter or is no case at all,
\* a section without material, a parent that is not an earlier node
C14_OtherFatalCause ==
  \/ Len(MeshData.NodeList) = 0
  \/ /\ entry = "ConstructMeshComponentFromMeshData"
     /\ ParentMaterialInterface.null \/ Owner = "nullptr"
  \/ \E j \in 1..Len(MeshData.MaterialList) :
       LET status == MeshData.MaterialList[j].ColorStatus
       IN \/ status \notin {"None", "ColorIsSet", "TextureIsSet",
                            "TextureWasSetButError"}
          \/ /\ status \in {"ColorIsSet", "TextureIsSet"}
             /\ ~ParentMaterialInterface.HasParameters
  \/ \E n \in 1..Len(MeshData.NodeList) :
       \/ \E j \in 1..Len(MeshData.NodeList[n].Sections) :
            MeshData.NodeList[n].Sections[j].MaterialIndex
              \notin 0..(Len(MeshData.MaterialList) - 1)
       \/ n > 1 /\ MeshData.NodeList[n].ParentNodeIndex \notin 0..(n - 2)

\* C14: a material of status TextureWasSetButError has, from the end of
\* the generation of the material instances on, a material instance at its
\* index, that instance never carries a scalar, vector or texture
\* parameter, and a fatal error of the call has another cause.
C14_TextureLoadErrorIsSkipped ==
  \A k \in 1..Len(MeshData.MaterialList) :
    MeshData.MaterialList[k].ColorStatus = "TextureWasSetButError" =>
      /\ pc \notin {"idle", "fatal"} =>
           /\ Len(MaterialInstances) = Len(MeshData.MaterialList)
           /\ MaterialInstances[k] # Uninitialized
      /\ (k <= Len(MaterialInstances) /\ MaterialInstances[k] # Uninitialized)
           => /\ MaterialInstances[k] \in 1..Len(Objects)
              /\ Objects[MaterialInstances[k]].Class =
                   "UMaterialInstanceDynamic"
              /\ Objects[MaterialInstances[k]].Parameters = <<>>
      /\ pc = "fatal" => C14_OtherFatalCause

\* a component was returned for a node whose first material failed to load
\* its texture and whose second material has a colour
C14_Witness ==
  /\ pc = "done"
  /\ Len(MeshData.MaterialList) = 2
  /\ MeshData.MaterialList[1].ColorStatus = "TextureWasSetButError"
  /\ MeshData.MaterialList[2].ColorStatus = "ColorIsSet"
  /\ Objects[MaterialInstances[1]].Parameters = <<>>
  /\ Objects[MaterialInstances[2]].Parameters # <<>>
  /\ Objects[Returned].Materials = MaterialInstances

\* every local transform of the node list is a pure translation and every
\* node but the first names an earlier node as its parent
C15_PureTranslationTree ==
  \A n \in 1..Len(MeshData.NodeList) :
    /\ MeshData.NodeList[n].RelativeTransform.Rotation = 0
    /\ MeshData.NodeList[n].RelativeTransform.Scale3D = 1
    /\ n > 1 => MeshData.NodeList[n].ParentNodeIndex \in 0..(n - 2)

\* the sum of the local translations of node n (counted from 1) and of all
\* its ancestors, the root included
RECURSIVE C15_SumToRoot(_)
C15_SumToRoot(n) ==
  LET t == MeshData.NodeList[n].RelativeTransform.Translation
  IN IF n = 1 THEN t
     ELSE LET up == C15_SumToRoot(MeshData.NodeList[n].ParentNodeIndex + 1)
          IN <<t[1] + up[1], t[2] + up[2]>>

\* C15: in the flattened reconstruction of a tree of pure translations the
\* transform computed for a node is the translation by the sum of the local
\* translations of the node and of all its ancestors including the root,
\* and the vertices computed for a section of the node are the loaded
\* vertices moved by that sum.
C15_TranslationsAdd ==
  (entry = "FCreateMeshFromMeshDataOnProceduralMeshComponentLatentAction"
     /\ C15_PureTranslationTree) =>
    \A n \in 1..Len(CalcTFMatrixTasks) :
      LET h == CalcTFMatrixTasks[n]
          sum == C15_SumToRoot(n)
      IN (h # InvalidTask /\ Tasks[h].State = "completed") =>
           /\ Tasks[h].Result = Translation(sum[1], sum[2])
           /\ \A v \in 1..Len(Tasks) :
                (/\ Tasks[v].Kind = "CalcVerticesRelativeToTargetTask"
                 /\ Tasks[v].Captured.CalcTFTask = h
                 /\ Tasks[v].State = "completed") =>
                   Tasks[v].Result =
                     [k \in 1..Len(Tasks[v].Captured.Array) |->
                        <<Tasks[v].Captured.Array[k][1] + sum[1],
                          Tasks[v].Captured.Array[k][2] + sum[2]>>]

\* the chain root -> A -> B with the translations (1, 0), (0, 1), (1, 1):
\* the section of B was created with its vertex (1, 1) moved by (2, 2)
C15_Witness ==
  /\ Len(MeshData.NodeList) = 3
  /\ MeshData.NodeList[1].RelativeTransform = Translation(1, 0)
  /\ MeshData.NodeList[2].RelativeTransform = Translation(0, 1)
  /\ MeshData.NodeList[3].RelativeTransform = Translation(1, 1)
  /\ MeshData.NodeList[2].ParentNodeIndex = 0
  /\ MeshData.NodeList[3].ParentNodeIndex = 1
  /\ MeshData.NodeList[3].Sections[1].Vertices = <<<<1, 1>>>>
  /\ Len(Target.Sections) = 1
  /\ Target.Sections[1].Vertices = <<<<3, 3>>>>

\* every node but the first names an earlier node as its parent
C16_ParentsAreEarlier ==
  \A n \in 2..Len(MeshData.NodeList) :
    MeshData.NodeList[n].ParentNodeIndex \in 0..(n - 2)

\* the ancestors of node n (counted from 1)
RECURSIVE C16_Ancestors(_)
C16_Ancestors(n) ==
  IF n = 1 THEN {}
  ELSE LET parent == MeshData.NodeList[n].ParentNodeIndex + 1
       IN {parent} \cup C16_Ancestors(parent)

\* C16: in the flattened reconstruction the transform task of a node other
\* than the first can start, or has run, only when the task of its parent
\* is completed, so check(ParentCalcTFTask.IsCompleted()) holds whenever
\* the body runs; when every parent is an earlier node the transform tasks
\* of all ancestors of the node are completed by then.
C16_ParentCompletesFirst ==
  entry = "FCreateMeshFromMeshDataOnProceduralMeshComponentLatentAction" =>
    \A n \in 2..Len(CalcTFMatrixTasks) :
      LET h == CalcTFMatrixTasks[n]
      IN (/\ h # InvalidTask
          /\ Schedulable(Tasks, h) \/ Tasks[h].State = "completed") =>
           /\ IsCompleted(Tasks, Tasks[h].Captured.ParentCalcTFTask)
           /\ C16_ParentsAreEarlier =>
                \A a \in C16_Ancestors(n) :
                  /\ CalcTFMatrixTasks[a] # InvalidTask
                  /\ Tasks[CalcTFMatrixTasks[a]].State = "completed"

\* the transform task of the third node of a chain has run, and so have
\* the tasks of its parent and of the root
C16_Witness ==
  /\ Len(CalcTFMatrixTasks) = 3
  /\ MeshData.NodeList[2].ParentNodeIndex = 0
  /\ MeshData.NodeList[3].ParentNodeIndex = 1
  /\ \A n \in 1..3 : /\ CalcTFMatrixTasks[n] # InvalidTask
                     /\ Tasks[CalcTFMatrixTasks[n]].State = "completed"
  /\ pc = "latent_launched"

\* C17: in the flattened reconstruction at most one call that creates a
\* mesh section on the target is in progress at any time, none is in
\* progress while the constructor runs (it is the constructor that calls
\* SetMaterial on the target), and every section was created while the
\* constructor was not running and every material was set by it.
C17_TargetWritesAreSerial ==
  entry = "FCreateMeshFromMeshDataOnProceduralMeshComponentLatentAction" =>
    /\ Cardinality(Target.Busy) <= 1
    /\ Target.Busy # {} => GameThread = "idle"
    /\ \A w \in Target.Writes :
         w.Constructing <=> w.Call = "SetMaterial"

\* a section is being created while the function of another section waits
\* for the game thread, and a section has been created before
C17_Witness ==
  /\ Target.Busy # {}
  /\ TickerQueue # {}
  /\ \E w \in Target.Writes : w.Call = "CreateMeshSection_LinearColor"
  /\ \E w \in Target.Writes : w.Call = "SetMaterial"

\* the section with index i has been created on the target
C18_SectionApplied(i) ==
  \E w \in Target.Writes :
    w.Call = "CreateMeshSection_LinearColor" /\ w.Index = i

\* C18: in the flattened reconstruction, once the running flag has been
\* reset by the join task, or the continuation has been triggered, every
\* section of the node list has been created on the target and no function
\* that creates a section is waiting for the game thread or in progress.
C18_CompletionAfterSections ==
  (/\ entry = "FCreateMeshFromMeshDataOnProceduralMeshComponentLatentAction"
   /\ pc = "latent_launched"
   /\ IsRunning = FALSE \/ Response.Triggered > 0) =>
    /\ TickerQueue = {}
    /\ Target.Busy = {}
    /\ \A i \in 0..(MeshSectionIndex - 1) : C18_SectionApplied(i)

\* a poll of the latent action: the only step that changes the response
C19_Poll == Response' # Response

\* C19: the continuation of one flattened reconstruction is triggered at
\* most once and only when the running flag is false; a poll made while the
\* flag is true triggers nothing, a poll made when the flag is false
\* triggers the continuation for the first time, and after that the action
\* is removed and not polled again.
C19_TriggeredOnce ==
  /\ [](/\ Response.Triggered <= 1
        /\ Response.Triggered = 1 => IsRunning = FALSE
        /\ Response.Removed <=> Response.Triggered = 1)
  /\ [][C19_Poll =>
          /\ ~Response.Removed
          /\ IF IsRunning
             THEN Response'.Triggered = 0 /\ ~Response'.Removed
             ELSE Response.Triggered = 0 /\ Response'.Triggered = 1]_vars

\* the action was polled while the flag was true and later triggered
C19_Witness ==
  /\ Response.StillRunning
  /\ Response.Triggered = 1
  /\ Response.Removed
  /\ IsRunning = FALSE

\* a flattened reconstruction is about to be made for a node list that is
\* not empty, whose parents are earlier nodes and whose sections and
\* materials pass the checks of the constructor
C20_WellFormedCall ==
  /\ pc = "idle"
  /\ MeshComponentT = "none"
  /\ Len(MeshData.NodeList) > 0
  /\ \A n \in 1..Len(MeshData.NodeList) :
       /\ n > 1 => MeshData.NodeList[n].ParentNodeIndex \in 0..(n - 2)
       /\ \A j \in 1..Len(MeshData.NodeList[n].Sections) :
            MeshData.NodeList[n].Sections[j].MaterialIndex
              \in 0..(Len(MeshData.MaterialList) - 1)
  /\ \A k \in 1..Len(MeshData.MaterialList) :
       LET status == MeshData.MaterialList[k].ColorStatus
       IN \/ status \in LogOnlyStatuses
          \/ /\ status \in {"ColorIsSet", "TextureIsSet"}
             /\ ParentMaterialInterface.HasParameters

C20_Completed == IsRunning = FALSE /\ Response.Triggered = 1

\* C20: when the worker pool and the game thread are scheduled fairly, a
\* flattened reconstruction of a well-formed node list, with or without
\* sections, leads to the running flag being false and the continuation
\* having been triggered.
C20_EventuallyCompleted == C20_WellFormedCall ~> C20_Completed

\* a reconstruction of three nodes without any section has completed: the
\* join task had no prerequisite
C20_Witness ==
  /\ entry = "FCreateMeshFromMeshDataOnProceduralMeshComponentLatentAction"
  /\ Len(MeshData.NodeList) = 3
  /\ \A n \in 1..3 : MeshData.NodeList[n].Sections = <<>>
  /\ Len(Tasks) > 0
  /\ Tasks[Len(Tasks)].Kind = "AllCreateMeshSectionCompletedTask"
  /\ Tasks[Len(Tasks)].Prerequisites = <<>>
  /\ C20_Completed

\* C21: for a loaded scene the transformation of every node but the root
\* is the source's own at every moment; the root's is the source's own
\* until the scene is handed to the extraction, when no material and no
\* node has been extracted yet, and from then on it is the source's own
\* multiplied exactly once, from the left, by the conversion matrix.
C21_NormalisedOnceAtRoot ==
  ~AiScene.null =>
    LET n == Len(AiScene.mChildren)
        root == AiScene.mRootNode
    IN /\ \A x \in (1..n) \ {root} :
            AiScene.mTransformation[x] = SourceTransforms(n)[x]
       /\ IF pc \in {"idle", "scene_loaded"}
          THEN /\ AiScene.mTransformation[root] = SourceTransforms(n)[root]
               /\ MaterialList = <<>>
               /\ MeshData = EmptyMeshData
               /\ stack = <<>>
          ELSE AiScene.mTransformation[root] =
                 <<Ai_UE_XformMatrix>> \o SourceTransforms(n)[root]

\* a scene of three nodes has been loaded
C21_Witness ==
  /\ LoadSucceeded
  /\ Len(AiScene.mChildren) = 3
  /\ NodeCount(ret) = 3
  /\ AiScene.mTransformation[1] = <<Ai_UE_XformMatrix, <<"Local", 1, FALSE>>>>
  /\ AiScene.mTransformation[3] = <<<<"Local", 3, FALSE>>>>

\* the transform task of node 0 of a flattened reconstruction
C22_RootTask == CalcTFMatrixTasks[1]

C22_RootTaskCompleted ==
  /\ entry = "FCreateMeshFromMeshDataOnProceduralMeshComponentLatentAction"
  /\ Len(CalcTFMatrixTasks) > 0
  /\ C22_RootTask # InvalidTask
  /\ Tasks[C22_RootTask].State = "completed"

\* C22 as stated: the transform task of node 0 resolves to the identity
\* transform.
C22_RootResolvesToIdentity ==
  C22_RootTaskCompleted => Tasks[C22_RootTask].Result = Identity

\* C22 as amended: the task that the transform task of node 0 reads as its
\* parent is completed from the moment it is made and resolves to the
\* identity transform, and the transform task of node 0 itself resolves to
\* the transform built from the matrix of the local transform of node 0.
C22_RootParentIsIdentity ==
  (/\ entry = "FCreateMeshFromMeshDataOnProceduralMeshComponentLatentAction"
   /\ Len(CalcTFMatrixTasks) > 0
   /\ C22_RootTask # InvalidTask) =>
    LET parent == Tasks[C22_RootTask].Captured.ParentCalcTFTask
        local == MeshData.NodeList[1].RelativeTransform
    IN /\ parent # InvalidTask
       /\ Tasks[parent].Kind = "MakeCompletedTask"
       /\ Tasks[parent].State = "completed"
       /\ Tasks[parent].Result = Identity
       /\ C22_RootTaskCompleted =>
            /\ ToMatrixWithScale(Tasks[C22_RootTask].Result) =
                 ToMatrixWithScale(local)
            /\ Tasks[C22_RootTask].Result =
                 FTransformFromMatrix(ToMatrixWithScale(local))

\* the root of a chain is translated by (1, 0) and its transform task has
\* resolved to that translation
C22_Witness ==
  /\ C22_RootTaskCompleted
  /\ MeshData.NodeList[1].RelativeTransform = Translation(1, 0)
  /\ Tasks[C22_RootTask].Result = Translation(1, 0)
  /\ Tasks[Tasks[C22_RootTask].Captured.ParentCalcTFTask].Result = Identity

C23_SectionKinds ==
  {"CalcVerticesRelativeToTargetTask", "CalcNormalsRelativeToTargetTask",
   "CalcTangentsRelativeToTargetTask"}

\* the array of section Section that the task of kind Kind captures
C23_ArrayOf(Section, Kind) ==
  CASE Kind = "CalcVerticesRelativeToTargetTask" -> Section.Vertices
    [] Kind = "CalcNormalsRelativeToTargetTask" -> Section.Normals
    [] Kind = "CalcTangentsRelativeToTargetTask" -> Section.Tangents

\* the three tasks that the section-creating task h depends on
C23_CalcTasksOf(h) ==
  {Tasks[h].Captured.CalcVerticesRelativeToTargetTask,
   Tasks[h].Captured.CalcNormalsRelativeToTargetTask,
   Tasks[h].Captured.CalcTangentsRelativeToTargetTask}

C23_Started(h) == Schedulable(Tasks, h) \/ Tasks[h].State = "completed"

\* C23: in the flattened reconstruction a vertices, normals or tangents
\* task captures the transform task of the node of its section, can start
\* exactly when that task is completed (it waits for nothing else), and has
\* run only then; a section-creating task and the function it hands to the
\* game thread start only when the three tasks of the section are
\* completed, so every check of IsCompleted inside these bodies holds.
C23_SectionTasksOrdered ==
  entry = "FCreateMeshFromMeshDataOnProceduralMeshComponentLatentAction" =>
    \A h \in 1..Len(Tasks) :
      /\ Tasks[h].Kind \in C23_SectionKinds =>
           LET CalcTF == Tasks[h].Captured.CalcTFTask
           IN /\ \E n \in 1..Len(CalcTFMatrixTasks) :
                   /\ CalcTFMatrixTasks[n] = CalcTF
                   /\ \E j \in 1..Len(MeshData.NodeList[n].Sections) :
                        C23_ArrayOf(MeshData.NodeList[n].Sections[j],
                                    Tasks[h].Kind) = Tasks[h].Captured.Array
              /\ CalcTF # InvalidTask
              /\ Tasks[h].State = "launched" =>
                   (Schedulable(Tasks, h)
                      <=> Tasks[CalcTF].State = "completed")
              /\ Tasks[h].State = "completed" =>
                   Tasks[CalcTF].State = "completed"
      /\ Tasks[h].Kind = "CreateMeshSectionTask_GameThread" =>
           /\ \A c \in C23_CalcTasksOf(h) :
                /\ c # InvalidTask
                /\ Tasks[c].Kind \in C23_SectionKinds
           /\ (C23_Started(h) \/ h \in TickerQueue \/ h \in Target.Busy) =>
                \A c \in C23_CalcTasksOf(h) : Tasks[c].State = "completed"
           /\ Tasks[h].State = "launched" =>
                (Schedulable(Tasks, h) <=>
                   \A c \in C23_CalcTasksOf(h) : Tasks[c].State = "completed")

\* the vertices of a section are computed while its normals are not yet,
\* and another section is being created
C23_Witness ==
  /\ Target.Busy # {}
  /\ \E h \in 1..Len(Tasks) :
       /\ Tasks[h].Kind = "CreateMeshSectionTask_GameThread"
       /\ Tasks[h].State = "launched"
       /\ Tasks[Tasks[h].Captured.CalcVerticesRelativeToTargetTask].State =
            "completed"
       /\ Tasks[Tasks[h].Captured.CalcNormalsRelativeToTargetTask].State =
            "launched"
       /\ \A b \in Target.Busy :
            Tasks[b].Captured.CalcVerticesRelativeToTargetTask #
              Tasks[h].Captured.CalcVerticesRelativeToTargetTask

\* the sections of the nodes 1..n of the node list, node after node
RECURSIVE C24_SectionsUpTo(_)
C24_SectionsUpTo(n) ==
  IF n = 0 THEN <<>>
  ELSE C24_SectionsUpTo(n - 1) \o MeshData.NodeList[n].Sections

C24_AllSections == C24_SectionsUpTo(Len(MeshData.NodeList))

\* C24: in the flattened reconstruction the k-th section-creating task, in
\* the order of the node list and of the sections within a node, carries
\* the index k - 1 and the k-th section; when the constructor has returned
\* there is one task for each section; a section is only ever created at
\* the index its task carries, with the data of its own section and the
\* arrays computed for it; and the material at an index is the instance of
\* the material index of the section with that index.
C24_SectionsNumberedInOrder ==
  entry = "FCreateMeshFromMeshDataOnProceduralMeshComponentLatentAction" =>
    LET N == Len(C24_AllSections)
    IN /\ Len(CreateMeshSectionTasks) <= N
       /\ MeshSectionIndex <= Len(CreateMeshSectionTasks)
       /\ pc = "latent_launched" =>
            MeshSectionIndex = N /\ Len(CreateMeshSectionTasks) = N
       /\ \A k \in 1..Len(CreateMeshSectionTasks) :
            LET c == Tasks[CreateMeshSectionTasks[k]].Captured
            IN /\ c.MeshSectionIndex = k - 1
               /\ c.Section = C24_AllSections[k]
       /\ \A k \in 1..MeshSectionIndex :
            /\ k <= Len(Target.Materials)
            /\ Target.Materials[k] =
                 At(MaterialInstances, C24_AllSections[k].MaterialIndex)
       /\ Len(Target.Materials) = MeshSectionIndex
       /\ Len(Target.Sections) <= N
       /\ \A w \in Target.Writes :
            /\ w.Index \in 0..(N - 1)
            /\ w.Call = "CreateMeshSection_LinearColor" =>
                 LET c == Tasks[CreateMeshSectionTasks[w.Index + 1]].Captured
                     built == Target.Sections[w.Index + 1]
                 IN /\ built.Triangles = C24_AllSections[w.Index + 1].Triangles
                    /\ built.UV0Channel =
                         C24_AllSections[w.Index + 1].UV0Channel
                    /\ built.Vertices =
                         Tasks[c.CalcVerticesRelativeToTargetTask].Result
                    /\ built.Normals =
                         Tasks[c.CalcNormalsRelativeToTargetTask].Result
                    /\ built.Tangents =
                         Tasks[c.CalcTangentsRelativeToTargetTask].Result

\* the two nodes of a list have one and two sections and the three
\* sections were created, each at its own index
C24_Witness ==
  /\ Len(MeshData.NodeList) = 2
  /\ Len(MeshData.NodeList[1].Sections) = 1
  /\ Len(MeshData.NodeList[2].Sections) = 2
  /\ pc = "latent_launched"
  /\ Len(Target.Sections) = 3
  /\ \A k \in 1..3 :
       /\ Target.Sections[k].UV0Channel = C24_AllSections[k].UV0Channel
       /\ Target.Sections[k].CreateCollision
  /\ Target.Materials[3] = At(MaterialInstances, 1)
  /\ Target.Materials[2] = At(MaterialInstances, 0)

\* C25: in the flattened reconstruction IsRunning is never written by one
\* execution context while another reads or writes it without an ordering
\* between the two accesses: no poll of UpdateOperation reads it unordered
\* with the write of AllCreateMeshSectionCompletedTask
C25_IsRunningAccessesAreOrdered == Sync.Unordered = {}

\* the nodes after the root whose ParentNodeIndex is not the index of an
\* earlier node
C26_MissingParentNodes ==
  {i \in 1..(Len(MeshData.NodeList) - 1) :
     At(MeshData.NodeList, i).ParentNodeIndex \notin 0..(i - 1)}

\* C26: hierarchical reconstruction of a NodeList in which a node i > 0 has
\* a ParentNodeIndex outside 0..i-1 stops with a fatal failure at node i:
\* the loop never goes past node i and no component is attached to a slot
\* of MeshComponentList that has not been filled
C26_MissingParentIsFatal ==
  entry = "ConstructMeshComponentFromMeshData" =>
    /\ \A i \in C26_MissingParentNodes : Node_i <= i
    /\ \A k \in 1..Len(Objects) :
         Objects[k].Attached # "none" =>
           Objects[k].AttachParent # Uninitialized

\* the indices of the materials of the scene that report more than one
\* diffuse texture
C27_ManyTextureMaterials ==
  IF AiScene.null THEN {}
  ELSE {i \in 0..(Len(AiScene.mMaterials) - 1) :
          At(AiScene.mMaterials, i).NumTexture > 1}

\* C27: when a material of the scene reports more than one diffuse texture,
\* material extraction stops with a fatal assertion at the first such
\* material: the loop never goes past it, when the loader has stopped it has
\* stopped there, and neither a material list nor a LoadedMeshData is
\* returned
C27_ManyTexturesAreFatal ==
  (entry \in LoadEntries /\ C27_ManyTextureMaterials # {}) =>
    /\ \A i \in C27_ManyTextureMaterials : mat_i <= i
    /\ pc \notin {"nodes", "nodes_loop", "done"}
    /\ pc = "fatal" => mat_i \in C27_ManyTextureMaterials
    /\ MeshData.MaterialList = <<>>
    /\ ret = EmptyMeshData

\* a scene of two materials whose second reports two diffuse textures has
\* stopped at the second material after the first was extracted
C27_Witness ==
  /\ entry \in LoadEntries
  /\ pc = "fatal"
  /\ C27_ManyTextureMaterials = {1}
  /\ mat_i = 1
  /\ MaterialList[1].ColorStatus # "None"

\* the aiMesh behind section k of a node of MeshData.NodeList
C28_MeshOf(Node, k) == At(AiScene.mMeshes, AiScene.mNodeMeshes[Node.Name][k])

\* C28: a mesh with a face whose index count is not 3 stops the extraction
\* with a fatal assertion, so no section is ever made from it and the load
\* does not return; the triangles of a section made from a mesh with F
\* faces are the 3*F indices of its faces, in face order and in the order
\* within each face
C28_TrianglesInFaceOrder ==
  (entry \in LoadEntries /\ ~AiScene.null) =>
    /\ \A n \in 1..Len(MeshData.NodeList) :
         \A k \in 1..Len(MeshData.NodeList[n].Sections) :
           LET mFaces == C28_MeshOf(MeshData.NodeList[n], k).mFaces
               Triangles == MeshData.NodeList[n].Sections[k].Triangles
           IN /\ \A f \in 1..Len(mFaces) : Len(mFaces[f]) = 3
              /\ Len(Triangles) = 3 * Len(mFaces)
              /\ \A f \in 1..Len(mFaces) : \A j \in 1..3 :
                   Triangles[3 * (f - 1) + j] = mFaces[f][j]
    /\ pc = "done" =>
         \A x \in 1..Len(AiScene.mNodeMeshes) :
           \A k \in 1..Len(AiScene.mNodeMeshes[x]) :
             \A f \in 1..Len(At(AiScene.mMeshes,
                                AiScene.mNodeMeshes[x][k]).mFaces) :
               Len(At(AiScene.mMeshes,
                      AiScene.mNodeMeshes[x][k]).mFaces[f]) = 3

\* a mesh of two different triangles has been extracted and returned
C28_Witness ==
  /\ entry \in LoadEntries
  /\ pc = "done"
  /\ Len(ret.NodeList) = 1
  /\ Len(ret.NodeList[1].Sections) = 1
  /\ ret.NodeList[1].Sections[1].Triangles = Triangle1 \o Triangle2

\* the step is the body of the task launched last by the constructor
C29_JoinStep ==
  \E h \in 1..Len(Tasks) :
     /\ Tasks[h].Kind = "AllCreateMeshSectionCompletedTask"
     /\ Tasks[h].State = "launched"
     /\ Tasks'[h].State = "completed"

\* C29: IsRunning of the flattened latent action is true from the
\* constructor on, before any task is launched: while a task exists the flag
\* is true unless the final join has run; it is changed afterwards only by
\* the final join, only from true to false, and once false it never becomes
\* true again
C29_IsRunningOnlyFalls ==
  /\ [](Tasks # <<>> =>
          \/ IsRunning = TRUE
          \/ \E h \in 1..Len(Tasks) :
               /\ Tasks[h].Kind = "AllCreateMeshSectionCompletedTask"
               /\ Tasks[h].State = "completed")
  /\ [][/\ (IsRunning /\ ~IsRunning') => C29_JoinStep
        /\ (~IsRunning /\ IsRunning') => (pc = "idle" /\ Tasks = <<>>)
        /\ (~IsRunning /\ pc # "idle") => ~IsRunning']_vars

\* the final join has run after the tasks of a section and the flag is false
C29_Witness ==
  /\ entry = "FCreateMeshFromMeshDataOnProceduralMeshComponentLatentAction"
  /\ Len(Tasks) > 2
  /\ Tasks[Len(Tasks)].Kind = "AllCreateMeshSectionCompletedTask"
  /\ Tasks[Len(Tasks)].State = "completed"
  /\ Target.Sections # <<>>
  /\ IsRunning = FALSE

\* how many times RegisterComponent was called on an object
C30_Registrations(o) ==
  Cardinality({c \in 1..Len(Objects[o].Calls) :
                 Objects[o].Calls[c] = "RegisterComponent"})

\* the objects on which RegisterComponent is called by the step
C30_RegisteredByStep ==
  {o \in 1..Len(Objects') :
     Objects'[o].Registered >
       IF o <= Len(Objects) THEN Objects[o].Registered ELSE 0}

\* the components that the loop has made so far, one per finished node
C30_Made == {At(MeshComponentList, i) : i \in 0..(Node_i - 1)}

\* the calls made on a component are none, or end with the attachment
C30_AttachedOnly(o) ==
  IF Objects[o].AttachParent = nullptr THEN Objects[o].Calls = <<>>
  ELSE Objects[o].Calls = <<"AttachToComponent">>

\* the calls made on a component are the registration, after the set-up of
\* the attachment when the component has a parent
C30_AttachedThenRegistered(o) ==
  IF Objects[o].AttachParent = nullptr
  THEN Objects[o].Calls = <<"RegisterComponent">>
  ELSE Objects[o].Calls = <<"SetupAttachment", "RegisterComponent">>

\* C30: in hierarchical reconstruction of a node list with parents before
\* children, with registration on every component made is registered exactly
\* once, the component of a node i > 0 has its attachment to its parent set
\* up before it is registered and its parent is registered before it; with
\* registration off no object is registered and every component of a node
\* i > 0 is attached to its parent
C30_RegistrationOrder ==
  /\ []((/\ entry = "ConstructMeshComponentFromMeshData"
         /\ pc \in {"build_loop", "done"}
         /\ ParentBeforeChild(MeshData)) =>
          /\ \A i \in 1..(Node_i - 1) :
               Objects[At(MeshComponentList, i)].AttachParent =
                 At(MeshComponentList, ParentIndexOf(MeshData, i))
          /\ Node_i > 0 =>
               Objects[At(MeshComponentList, 0)].AttachParent = nullptr
          /\ IF ShouldRegisterComponentToOwner
             THEN \A o \in C30_Made :
                    /\ C30_Registrations(o) = 1
                    /\ C30_AttachedThenRegistered(o)
             ELSE /\ \A o \in 1..Len(Objects) : C30_Registrations(o) = 0
                  /\ \A o \in C30_Made : C30_AttachedOnly(o))
  /\ [][(/\ entry = "ConstructMeshComponentFromMeshData"
         /\ ParentBeforeChild(MeshData)) =>
          \A o \in C30_RegisteredByStep :
            Objects'[o].AttachParent # nullptr =>
              /\ Objects'[o].AttachParent \in 1..Len(Objects)
              /\ Objects[Objects'[o].AttachParent].Registered = 1]_vars

\* a registered tree of three components has been built in which the
\* component of node 2 hangs under that of node 1
C30_Witness ==
  /\ HierarchicalDone
  /\ ShouldRegisterComponentToOwner
  /\ NodeCount(MeshData) = 3
  /\ ParentIndexOf(MeshData, 2) = 1
  /\ Objects[At(MeshComponentList, 2)].Calls =
       <<"SetupAttachment", "RegisterComponent">>
  /\ Objects[At(MeshComponentList, 1)].Registered = 1

====
